---------------------------- MODULE Spec2Model ----------------------------
(***************************************************************************)
(* A model of the transcript acquisition and enrichment core of            *)
(* TranscriptPro:                                                          *)
(*   - the batch queue of the frontend AIService (batchProcess,            *)
(*     processQueue, executeSingleRequest),                                *)
(*   - the request wrappers (AIService.makeRequest with its retry loop,    *)
(*     OpenRouterService.makeRequest),                                     *)
(*   - the enrichment pipeline of TranscriptProcessor (processTranscript   *)
(*     and the stages and fallbacks it calls),                             *)
(*   - the YouTubeService resolver (getVideoDetails, extractCaptions),     *)
(*   - processSentences at the grain of the single sub-call,               *)
(*   - the subtitle parser (parseVTTFile, parseVTTTime),                   *)
(*   - extractVideoId of YouTubeService and of VideoPlayer,                *)
(*   - the fallbacks of OpenRouterService called on their own,             *)
(*   - the sub-result cache of the frontend AIService.                     *)
(* Each component has its own specification over the shared variables; a   *)
(* component that a specification does not exercise stays in its initial   *)
(* state.                                                                  *)
(***************************************************************************)
EXTENDS Integers, Sequences, FiniteSets, TLC

VARIABLES
    \* ---- AIService batch queue (AlService.js:9-10, 242-312)
    requestQueue,       \* this.requestQueue: the ids of the queued jobs, oldest first
    isProcessingQueue,  \* this.isProcessingQueue
    jobs,               \* every job submitted so far: its request list, the position of
                        \* the processQueue invocation working on it, and its promise
    timers,             \* pending setTimeout(() => this.processQueue(), 500) callbacks
    \* ---- one invocation of a request wrapper (AlService.js:317-342,
    \*      OpenRouterService.js:38-64)
    mrWhich,            \* the wrapper invoked: "frontend" (AIService) or "backend"
    mrPc,               \* "idle", "fetching", "backoff", "returned" or "threw"
    attempt,            \* the loop variable of AIService.makeRequest
    mrFetches,          \* requests sent by the invocation so far
    mrLog,              \* how each request sent so far ended, in order
    mrWaits,            \* the delays (ms) the invocation has slept, in order
    mrResult,           \* what the invocation returned or threw
    \* ---- YouTubeService (YouTubeService.js:13-145, 279-292, 425-498)
    nodeEnv,            \* process.env.NODE_ENV
    apiKey,             \* whether this.apiKey is configured
    answers,            \* the network: how the k-th request of the running
                        \* getVideoDetails call would be answered
    vdPc,               \* getVideoDetails: "idle", "requesting" or "done"
    vdId,               \* its videoId argument
    vdAttempts,         \* requests it has sent
    vdResult,           \* what it returned or threw
    ecPc,               \* extractCaptions: "idle", "exec", "find", "parse", "cleanup", "done"
    ecFiles,            \* the scratch files of the call's output path in tempDir
    ecFound,            \* the subtitle file findSubtitleFile returned
    ecLog,              \* how the steps of the running call ended
    ecResult,           \* what it returned or threw
    \* ---- TranscriptProcessor (YouTubeService.js:509-826)
    ptCalls,            \* the processTranscript invocations made so far, in order:
                        \* arguments, position, inference calls made, and result
    ptCache,            \* this.cache: the artifact stored under each cache key
    \* ---- one processSentences invocation, sub-call by sub-call
    \*      (YouTubeService.js:566-616)
    psPc,               \* "idle", "awaiting" (Promise.all), "delay" or "returned"
    psLanguage,         \* its language argument
    psSentences,        \* the number of sentences it was given
    psIndex,            \* the sentence its loop is at (1-based)
    psPending,          \* the sub-calls the awaited Promise.all still waits for
    psOrphans,          \* sub-calls still running whose Promise.all was rejected
    psProcessed,        \* processedSentences
    \* ---- one parseVTTFile invocation, line by line (YouTubeService.js:191-231)
    vttPc,              \* "idle", "walking" (inside the for loop) or "returned"
    vttCues,            \* the cues the content was written from
    lines,              \* content.split('\n')
    lineNo,             \* the position of the line the loop takes next
    currentCaption,     \* currentCaption
    captions,           \* captions
    parsed,             \* the value parseVTTFile returned
    \* ---- one extractVideoId invocation (YouTubeService.js:31-49 and
    \*      VideoPlayer, src/unnamed/part_001:213-236)
    evPc,               \* "idle", "matching" (inside the for loop) or "returned"
    evWhich,            \* the class whose extractVideoId runs
    evUrl,              \* its url argument, as a sequence of characters
    evPattern,          \* the position in patterns of the pattern tried next
    evResult,           \* the value it returned
    \* ---- one invocation of a fallback of OpenRouterService
    \*      (OpenRouterService.js:219-284)
    fbPc,               \* "idle" or "returned"
    fbArg,              \* its argument: the entries, or the sentence text
    fbResult,           \* the value it returned
    \* ---- the sub-result cache of the frontend AIService (AlService.js:8,
    \*      89-199)
    acCache,            \* this.cache: the data stored under each key
    acPc,               \* "idle", "requesting", "returned" or "threw"
    acCall,             \* the call at hand: method, text, sentence id, language
    acResult,           \* the value it returned
    acCalls             \* calls made so far

queueVars == <<requestQueue, isProcessingQueue, jobs, timers>>

retryVars == <<mrWhich, mrPc, attempt, mrFetches, mrLog, mrWaits, mrResult>>

envVars == <<nodeEnv, apiKey>>

videoVars == <<answers, vdPc, vdId, vdAttempts, vdResult>>

captionVars == <<ecPc, ecFiles, ecFound, ecLog, ecResult>>

resolverVars == <<envVars, videoVars, captionVars>>

pipelineVars == <<ptCalls, ptCache>>

sentenceVars ==
    <<psPc, psLanguage, psSentences, psIndex, psPending, psOrphans, psProcessed>>

parserVars == <<vttPc, vttCues, lines, lineNo, currentCaption, captions, parsed>>

videoIdVars == <<evPc, evWhich, evUrl, evPattern, evResult>>

fallbackVars == <<fbPc, fbArg, fbResult>>

aiCacheVars == <<acCache, acPc, acCall, acResult, acCalls>>

vars ==
    <<queueVars, retryVars, resolverVars, pipelineVars, sentenceVars,
      parserVars, videoIdVars, fallbackVars, aiCacheVars>>

\* What an action of one component leaves alone: the other components.
QueueFrame ==
    UNCHANGED <<retryVars, resolverVars, pipelineVars, sentenceVars,
                parserVars, videoIdVars, fallbackVars, aiCacheVars>>
RetryFrame ==
    UNCHANGED <<queueVars, resolverVars, pipelineVars, sentenceVars,
                parserVars, videoIdVars, fallbackVars, aiCacheVars>>
ResolverFrame ==
    UNCHANGED <<queueVars, retryVars, pipelineVars, sentenceVars, parserVars,
                videoIdVars, fallbackVars, aiCacheVars>>
PipelineFrame ==
    UNCHANGED <<queueVars, retryVars, resolverVars, sentenceVars, parserVars,
                videoIdVars, fallbackVars, aiCacheVars>>
SentenceFrame ==
    UNCHANGED <<queueVars, retryVars, resolverVars, pipelineVars, parserVars,
                videoIdVars, fallbackVars, aiCacheVars>>
ParserFrame ==
    UNCHANGED <<queueVars, retryVars, resolverVars, pipelineVars,
                sentenceVars, videoIdVars, fallbackVars, aiCacheVars>>
VideoIdFrame ==
    UNCHANGED <<queueVars, retryVars, resolverVars, pipelineVars,
                sentenceVars, parserVars, fallbackVars, aiCacheVars>>
FallbackFrame ==
    UNCHANGED <<queueVars, retryVars, resolverVars, pipelineVars,
                sentenceVars, parserVars, videoIdVars, aiCacheVars>>
AiCacheFrame ==
    UNCHANGED <<queueVars, retryVars, resolverVars, pipelineVars,
                sentenceVars, parserVars, videoIdVars, fallbackVars>>

\* ------------------------------------------------------------------------
\* Bounds of the model
\* ------------------------------------------------------------------------
MaxJobs == 2        \* batchProcess submissions in one run
MaxBacklog == 3     \* batchProcess submissions in one run of the backlog specification
MaxLen == 4         \* length of a submitted request list
MaxLookups == 3     \* calls of the cached AIService methods in one run
MaxEntries == 3     \* entries handed to fallbackSentenceSplit
MaxWords == 17      \* words of a text handed to fallbackComplexityAnalysis
MaxCues == 2        \* cues of a cue file
MaxSentences == 3   \* sentences handed to processSentences
MaxCalls == 3       \* processTranscript invocations in one run

\* ------------------------------------------------------------------------
\* Helpers
\* ------------------------------------------------------------------------
Min(a, b) == IF a < b THEN a ELSE b

Max(a, b) == IF a > b THEN a ELSE b

\* The sum of a sequence of integers.
RECURSIVE SumSeq(_)
SumSeq(s) == IF Len(s) = 0 THEN 0 ELSE Head(s) + SumSeq(Tail(s))

\* The elements of a finite set of positive integers, in increasing order.
RECURSIVE SetToSeq(_)
SetToSeq(S) ==
    IF S = {} THEN <<>>
    ELSE LET m == CHOOSE x \in S : \A y \in S : y <= x
         IN Append(SetToSeq(S \ {m}), m)

\* ------------------------------------------------------------------------
\* AIService batch queue
\* ------------------------------------------------------------------------
\* What a request does when executeSingleRequest runs it: a request of a known
\* type calls the service method, whose promise is fulfilled ("ok") or rejected
\* ("fail"); a request of any other type throws at once ("unknown").
RequestKinds == {"ok", "fail", "unknown"}

\* The 7 requests of the spec's batch scenario: request #4 is forced to fail.
ScenarioRequests == <<"ok", "ok", "ok", "fail", "ok", "ok", "ok">>

\* The request lists a caller submits: of every length up to MaxLen, the lists
\* whose requests are all of one kind and the lists in which exactly one request,
\* at any position, fails or has an unknown type; and the scenario's list.
RequestLists ==
    UNION {
        {[k \in 1..n |-> kind] : kind \in RequestKinds}
        \cup {[k \in 1..n |-> IF k = b THEN kind ELSE "ok"] :
                  b \in 1..n, kind \in {"fail", "unknown"}} : n \in 0..MaxLen }
    \cup {ScenarioRequests}

\* The longest request list a job can carry.
MaxRequests == Max(MaxLen, Len(ScenarioRequests))

batchSize == 3

\* The milliseconds of this.delay(...) between two chunks and of the timer that
\* calls processQueue again.
chunkDelay == 1000
cooldownDelay == 500

\* executeSingleRequest: the state of the promise it returns, right after the call.
\* The default branch of the switch throws inside the async function, so the
\* promise is rejected without any suspension; a known type awaits the service.
executeSingleRequest(kind) ==
    IF kind = "unknown" THEN "rejected" ELSE "pending"

\* The outcome Promise.allSettled records for a request once its promise settles.
settledStatus(kind) ==
    IF kind = "ok" THEN "fulfilled" ELSE "rejected"

\* (mutant) requests.slice(i): the slice loses its upper end.
batchOfUnbounded(requests, i) == (i + 1)..Len(requests)

\* requests.slice(i, i + batchSize), as the (1-based) positions of the slice.
batchOf(requests, i) == (i + 1)..Min(i + batchSize, Len(requests))

\* The job record as batchProcess pushes it.
NewJob(requests) ==
    [requests |-> requests, pc |-> "queued", i |-> 0, results |-> <<>>,
     batch |-> {}, batchResults |-> <<>>, chunks |-> <<>>,
     waits |-> <<>>, timer |-> 0, behind |-> 0, during |-> "idle",
     promise |-> [state |-> "pending", value |-> <<>>]]

\* batch.map(req => this.executeSingleRequest(req)) handed to Promise.allSettled:
\* every request of the slice is started; batchResults holds the outcome of those
\* already settled, keyed by position. chunks is the history of the sizes of the
\* slices started so far, waits that of the delays awaited between them, timer
\* the milliseconds of the timer set when the invocation ended, behind the number
\* of jobs waiting in the queue when the job was submitted, during what the
\* queue was doing then: "idle", "running" a job, or in its "cooldown".
startBatch(job, i) ==
    LET b == batchOf(job.requests, i)
        immediate == {k \in b : executeSingleRequest(job.requests[k]) = "rejected"}
    IN [job EXCEPT !.pc = "chunk", !.i = i, !.batch = b,
                   !.batchResults = [k \in immediate |-> "rejected"],
                   !.chunks = Append(@, Cardinality(b))]

\* resolve(results) and the end of the invocation.
resolveJob(job, results) ==
    [job EXCEPT !.pc = "resolved", !.results = results, !.batch = {},
                !.batchResults = <<>>, !.timer = cooldownDelay,
                !.promise = [state |-> "resolved", value |-> results]]

\* (mutant) only the fulfilled outcomes are kept, as Promise.all followed by a
\* filter would.
allSettledResultsFulfilledOnly(job) ==
    LET order == SetToSeq({k \in job.batch : job.batchResults[k] = "fulfilled"})
    IN [n \in 1..Len(order) |-> [req |-> order[n], status |-> "fulfilled"]]

\* The results allSettled yields for a slice: one per request, in slice order.
allSettledResults(job) ==
    LET order == SetToSeq(job.batch)
    IN [n \in 1..Len(order) |->
            [req |-> order[n], status |-> job.batchResults[order[n]]]]

\* (mutant) the timer is never set.
setTimeoutDropped(t) == t

\* setTimeout(() => this.processQueue(), 500), on t pending timers.
setTimeout(t) == t + 1

\* (mutant) this.requestQueue.pop(): the job submitted last is taken.
shiftLast(q) == [job |-> q[Len(q)], queue |-> SubSeq(q, 1, Len(q) - 1)]

\* this.requestQueue.shift(): the job taken and the queue left.
shift(q) == [job |-> Head(q), queue |-> Tail(q)]

\* processQueue() up to its first suspension point, run on queue q with the job
\* table js and t pending timers.
processQueue(q, js, t) ==
    IF Len(q) = 0
    THEN /\ isProcessingQueue' = FALSE
         /\ requestQueue' = q
         /\ jobs' = js
         /\ timers' = t
    ELSE LET j == shift(q).job
             job == js[j]
         IN /\ isProcessingQueue' = TRUE
            /\ requestQueue' = shift(q).queue
            /\ IF Len(job.requests) = 0
               THEN \* the loop body never runs: resolve([]) and schedule the successor
                    /\ jobs' = [js EXCEPT ![j] = resolveJob(job, <<>>)]
                    /\ timers' = setTimeout(t)
               ELSE /\ jobs' = [js EXCEPT ![j] = startBatch(job, 0)]
                    /\ timers' = t

\* batchProcess(requests), as one of at most `limit` submissions.
BatchProcessOf(requests, limit) ==
    /\ Len(jobs) < limit
    /\ LET j == Len(jobs) + 1
           js == Append(jobs, [NewJob(requests) EXCEPT
                                  !.behind = Len(requestQueue),
                                  !.during = IF ~isProcessingQueue THEN "idle"
                                             ELSE IF timers > 0 THEN "cooldown"
                                             ELSE "running"])
           q == Append(requestQueue, j)
       IN IF ~isProcessingQueue
          THEN processQueue(q, js, timers)
          ELSE /\ requestQueue' = q
               /\ jobs' = js
               /\ UNCHANGED <<isProcessingQueue, timers>>
    /\ QueueFrame

\* (mutant) batchProcess without the isProcessingQueue test.
BatchProcessUnguarded(requests) ==
    /\ Len(jobs) < MaxJobs
    /\ processQueue(Append(requestQueue, Len(jobs) + 1),
                    Append(jobs, NewJob(requests)), timers)
    /\ QueueFrame

\* batchProcess(requests)
BatchProcess(requests) == BatchProcessOf(requests, MaxJobs)

\* One in-flight request of the current slice settles.
SettleRequest(j, k) ==
    /\ j \in DOMAIN jobs
    /\ jobs[j].pc = "chunk"
    /\ k \in jobs[j].batch
    /\ k \notin DOMAIN jobs[j].batchResults
    /\ jobs' = [jobs EXCEPT ![j].batchResults =
                    [n \in (DOMAIN @) \cup {k} |->
                        IF n = k THEN settledStatus(jobs[j].requests[k]) ELSE @[n]]]
    /\ UNCHANGED <<requestQueue, isProcessingQueue, timers>>
    /\ QueueFrame

\* (mutant) the delay is awaited after the last full chunk too.
delayFollowsFullChunk(job) == job.i + batchSize <= Len(job.requests)

\* if (i + batchSize < requests.length): more requests remain after this chunk.
delayFollows(job) == job.i + batchSize < Len(job.requests)

\* await Promise.allSettled(...) resumes: results.push(...batchResults), then either
\* the inter-chunk delay or resolve(results) and setTimeout(processQueue, 500).
ChunkSettled(j) ==
    /\ j \in DOMAIN jobs
    /\ jobs[j].pc = "chunk"
    /\ DOMAIN jobs[j].batchResults = jobs[j].batch
    /\ LET job == jobs[j]
           results == job.results \o allSettledResults(job)
       IN IF delayFollows(job)
          THEN /\ jobs' = [jobs EXCEPT ![j] =
                             [job EXCEPT !.pc = "delay", !.results = results,
                                         !.batch = {}, !.batchResults = <<>>,
                                         !.waits = Append(@, chunkDelay)]]
               /\ UNCHANGED timers
          ELSE /\ jobs' = [jobs EXCEPT ![j] = resolveJob(job, results)]
               /\ timers' = setTimeout(timers)
    /\ UNCHANGED <<requestQueue, isProcessingQueue>>
    /\ QueueFrame

\* await this.delay(1000) resumes: i += batchSize and the next slice starts.
DelayElapsed(j) ==
    /\ j \in DOMAIN jobs
    /\ jobs[j].pc = "delay"
    /\ jobs' = [jobs EXCEPT ![j] = startBatch(jobs[j], jobs[j].i + batchSize)]
    /\ UNCHANGED <<requestQueue, isProcessingQueue, timers>>
    /\ QueueFrame

\* The 500 ms timer fires: this.processQueue().
CooldownElapsed ==
    /\ timers > 0
    /\ processQueue(requestQueue, jobs, timers - 1)
    /\ QueueFrame

QueueInit ==
    /\ requestQueue = <<>>
    /\ isProcessingQueue = FALSE
    /\ jobs = <<>>
    /\ timers = 0

QueueNext ==
    \/ \E requests \in RequestLists : BatchProcess(requests)
    \/ \E j \in 1..MaxJobs : \E k \in 1..MaxRequests : SettleRequest(j, k)
    \/ \E j \in 1..MaxJobs : ChunkSettled(j)
    \/ \E j \in 1..MaxJobs : DelayElapsed(j)
    \/ CooldownElapsed

\* The request lists of a backlog: empty, a single request, and two chunks with
\* a failing request.
BacklogLists == {<<>>, <<"ok">>, <<"ok", "fail", "ok", "ok">>}

\* batchProcess(requests) as one submission of a backlog.
BacklogProcess(requests) == BatchProcessOf(requests, MaxBacklog)

\* Up to MaxBacklog jobs, submitted at any moment: while a job runs, during the
\* cool-down, or after the queue has gone idle.
BacklogNext ==
    \/ \E requests \in BacklogLists : BacklogProcess(requests)
    \/ \E j \in 1..MaxBacklog : \E k \in 1..MaxRequests : SettleRequest(j, k)
    \/ \E j \in 1..MaxBacklog : ChunkSettled(j)
    \/ \E j \in 1..MaxBacklog : DelayElapsed(j)
    \/ CooldownElapsed

\* ------------------------------------------------------------------------
\* Request wrappers: AIService.makeRequest and OpenRouterService.makeRequest
\* ------------------------------------------------------------------------
\* How one request can end. fetch resolves with a response of any HTTP status and
\* rejects on a network failure or a timeout.
Responses == {"200", "404", "429", "500"}
Rejections == {"network", "timeout"}
FetchOutcomes == Responses \cup Rejections

maxRetries == 3

NoResult == [kind |-> "none", value |-> "none", attempt |-> 0]

\* (mutant) a 429 does not use up an attempt.
nextAttemptSparing429(a, cause) == IF cause = "429" THEN a ELSE a + 1

\* The attempt++ of the for loop, reached by `continue` after a 429 and by the end
\* of the catch block after a failure.
nextAttempt(a, cause) == a + 1

\* makeRequest(...) is called: the first request is sent.
MakeRequestCall(which) ==
    /\ mrPc \in {"idle", "returned", "threw"}
    /\ mrWhich' = which
    /\ mrPc' = "fetching"
    /\ attempt' = 1
    /\ mrFetches' = 1
    /\ mrLog' = <<>>
    /\ mrWaits' = <<>>
    /\ mrResult' = NoResult
    /\ RetryFrame

\* AIService.makeRequest: await fetch(url, options) settles with outcome o.
FrontendFetchSettles(o) ==
    /\ mrPc = "fetching"
    /\ mrWhich = "frontend"
    /\ mrLog' = Append(mrLog, o)
    /\ IF o = "429"
       THEN \* rate limited: await this.delay(attempt * 2000); continue
            /\ mrPc' = "backoff"
            /\ mrWaits' = Append(mrWaits, attempt * 2000)
            /\ UNCHANGED mrResult
       ELSE IF o \in Responses
       THEN \* return response
            /\ mrPc' = "returned"
            /\ mrResult' = [kind |-> "response", value |-> o, attempt |-> attempt]
            /\ UNCHANGED mrWaits
       ELSE IF attempt = maxRetries
       THEN \* catch: throw error
            /\ mrPc' = "threw"
            /\ mrResult' = [kind |-> "error", value |-> o, attempt |-> attempt]
            /\ UNCHANGED mrWaits
       ELSE \* catch: await this.delay(1000 * attempt)
            /\ mrPc' = "backoff"
            /\ mrWaits' = Append(mrWaits, 1000 * attempt)
            /\ UNCHANGED mrResult
    /\ UNCHANGED <<mrWhich, attempt, mrFetches>>
    /\ RetryFrame

\* AIService.makeRequest: the delay ends and the loop goes round; when the loop
\* condition fails the function body ends, which returns undefined.
BackoffElapsed ==
    /\ mrPc = "backoff"
    /\ LET a == nextAttempt(attempt, mrLog[Len(mrLog)])
       IN /\ attempt' = a
          /\ IF a <= maxRetries
             THEN /\ mrPc' = "fetching"
                  /\ mrFetches' = mrFetches + 1
                  /\ UNCHANGED mrResult
             ELSE /\ mrPc' = "returned"
                  /\ mrResult' = [kind |-> "undefined", value |-> "undefined",
                                  attempt |-> attempt]
                  /\ UNCHANGED mrFetches
    /\ UNCHANGED <<mrWhich, mrLog, mrWaits>>
    /\ RetryFrame

\* OpenRouterService.makeRequest: one axios.post, which resolves for a 2xx status
\* and rejects otherwise; the catch block rethrows as "AI processing failed".
BackendPostSettles(o) ==
    /\ mrPc = "fetching"
    /\ mrWhich = "backend"
    /\ mrLog' = Append(mrLog, o)
    /\ IF o = "200"
       THEN /\ mrPc' = "returned"
            /\ mrResult' = [kind |-> "response", value |-> o, attempt |-> attempt]
       ELSE /\ mrPc' = "threw"
            /\ mrResult' = [kind |-> "error", value |-> o, attempt |-> attempt]
    /\ UNCHANGED <<mrWhich, attempt, mrFetches, mrWaits>>
    /\ RetryFrame

RetryInit ==
    /\ mrWhich = "frontend"
    /\ mrPc = "idle"
    /\ attempt = 0
    /\ mrFetches = 0
    /\ mrLog = <<>>
    /\ mrWaits = <<>>
    /\ mrResult = NoResult

RetryNext ==
    \/ \E which \in {"frontend", "backend"} : MakeRequestCall(which)
    \/ \E o \in FetchOutcomes : FrontendFetchSettles(o)
    \/ BackoffElapsed
    \/ \E o \in FetchOutcomes : BackendPostSettles(o)

\* ------------------------------------------------------------------------
\* YouTubeService: getVideoDetails and extractCaptions
\* ------------------------------------------------------------------------
\* Settings of NODE_ENV; "unset" is the variable not being defined.
NodeEnvs == {"production", "development", "test", "unset"}

VideoIds == {"dQw4w9WgXcQ", ""}

\* How a request to `${this.baseURL}/videos` can end: a response with the video,
\* a response with no items, or a network or HTTP failure.
VideoAnswers == {"ok", "empty", "fail"}

\* The sources of the failover scenario: A, B and C answer the first, second and
\* third request of a call.
ScenarioSources == <<"A", "B", "C">>

NoVideoResult == [kind |-> "none", title |-> <<>>, duration |-> 0]

\* The record built from response.data.items[0].
videoDetails(videoId) ==
    [kind |-> "details", title |-> <<"Never Gonna Give You Up">>, duration |-> 212]

\* getMockVideoDetails(videoId); the title is the template
\* `Demo Video - Learning English with AI (${videoId})`, kept as its pieces.
getMockVideoDetails(videoId) ==
    [kind |-> "mock",
     title |-> <<"Demo Video - Learning English with AI (", videoId, ")">>,
     duration |-> 360]

\* (mutant) the fallback test written as NODE_ENV !== 'production'.
mockFallbackOutsideProduction(env) == env # "production"

\* process.env.NODE_ENV === 'development', the test of both catch blocks.
mockFallback(env) == env = "development"

\* The catch block of getVideoDetails.
videoFailure(videoId) ==
    IF mockFallback(nodeEnv)
    THEN getMockVideoDetails(videoId)
    ELSE [kind |-> "raised", title |-> <<>>, duration |-> 0]

\* getVideoDetails(videoId) is called, the network being `net`: without an API key
\* it throws before any request; otherwise it sends its request.
GetVideoDetailsCall(videoId, net) ==
    /\ vdPc \in {"idle", "done"}
    /\ answers' = net
    /\ vdId' = videoId
    /\ IF ~apiKey
       THEN /\ vdPc' = "done"
            /\ vdAttempts' = 0
            /\ vdResult' = videoFailure(videoId)
       ELSE /\ vdPc' = "requesting"
            /\ vdAttempts' = 1
            /\ vdResult' = NoVideoResult
    /\ UNCHANGED <<envVars, captionVars>>
    /\ ResolverFrame

\* (mutant) a failed request is followed by a request to the next source, up to
\* the number of sources of the scenario.
VideoRequestSettlesRetrying ==
    /\ vdPc = "requesting"
    /\ IF answers[vdAttempts] = "ok"
       THEN /\ vdPc' = "done"
            /\ vdResult' = videoDetails(vdId)
            /\ UNCHANGED vdAttempts
       ELSE IF vdAttempts < Len(ScenarioSources)
       THEN /\ vdAttempts' = vdAttempts + 1
            /\ UNCHANGED <<vdPc, vdResult>>
       ELSE /\ vdPc' = "done"
            /\ vdResult' = videoFailure(vdId)
            /\ UNCHANGED vdAttempts
    /\ UNCHANGED <<envVars, captionVars, answers, vdId>>
    /\ ResolverFrame

\* await axios.get(...) settles: the record is built from the first item, or the
\* failure (no items, network error) goes to the catch block. No other request is
\* sent.
VideoRequestSettles ==
    /\ vdPc = "requesting"
    /\ vdPc' = "done"
    /\ vdResult' = IF answers[vdAttempts] = "ok"
                   THEN videoDetails(vdId)
                   ELSE videoFailure(vdId)
    /\ UNCHANGED <<envVars, captionVars, answers, vdId, vdAttempts>>
    /\ ResolverFrame

\* The extensions findSubtitleFile tries, in order: plain, then language-qualified.
possibleExtensions == <<".vtt", ".srt", ".json", ".txt">>
qualifiedExtensions == <<".en.vtt", ".en.srt", ".en.json", ".en.txt">>

\* What one run of the extraction tool can leave in the scratch directory.
ExecWrites == {{}, {".en.vtt"}, {".vtt"}, {".json"}, {".en.srt", ".en.vtt"}}

NoCaptionResult == [kind |-> "none", file |-> "none"]

\* The catch block of extractCaptions.
captionFailure ==
    IF mockFallback(nodeEnv)
    THEN [kind |-> "mock", file |-> "none"]
    ELSE [kind |-> "raised", file |-> "none"]

\* findSubtitleFile(basePath, language): the first file that exists.
findSubtitleFile(files) ==
    LET order == possibleExtensions \o qualifiedExtensions
        hits == {n \in 1..Len(order) : order[n] \in files}
    IN IF hits = {} THEN "null"
       ELSE order[CHOOSE n \in hits : \A m \in hits : n <= m]

\* extractCaptions(videoId, language) is called: the tool is started.
ExtractCaptionsCall ==
    /\ ecPc \in {"idle", "done"}
    /\ ecPc' = "exec"
    /\ ecFound' = "null"
    /\ ecLog' = <<>>
    /\ ecResult' = NoCaptionResult
    /\ UNCHANGED <<envVars, videoVars, ecFiles>>
    /\ ResolverFrame

\* await execAsync(command, {timeout: 30000}) settles; whatever its outcome the
\* tool may have written files. A failure or a timeout goes to the catch block.
ExecSettles(outcome, written) ==
    /\ ecPc = "exec"
    /\ ecFiles' = ecFiles \cup written
    /\ ecLog' = Append(ecLog, outcome)
    /\ IF outcome = "ok"
       THEN ecPc' = "find" /\ UNCHANGED ecResult
       ELSE ecPc' = "done" /\ ecResult' = captionFailure
    /\ UNCHANGED <<envVars, videoVars, ecFound>>
    /\ ResolverFrame

\* await this.findSubtitleFile(outputFile, language) settles.
FindSettles ==
    /\ ecPc = "find"
    /\ LET f == findSubtitleFile(ecFiles)
       IN /\ ecFound' = f
          /\ IF f = "null"
             THEN /\ ecPc' = "done"
                  /\ ecResult' = captionFailure
                  /\ ecLog' = Append(ecLog, "nofile")
             ELSE /\ ecPc' = "parse"
                  /\ ecLog' = Append(ecLog, "found")
                  /\ UNCHANGED ecResult
    /\ UNCHANGED <<envVars, videoVars, ecFiles>>
    /\ ResolverFrame

\* await this.parseSubtitleFile(subtitleFile) settles.
ParseSettles(outcome) ==
    /\ ecPc = "parse"
    /\ ecLog' = Append(ecLog, outcome)
    /\ IF outcome = "parsed"
       THEN ecPc' = "cleanup" /\ UNCHANGED ecResult
       ELSE ecPc' = "done" /\ ecResult' = captionFailure
    /\ UNCHANGED <<envVars, videoVars, ecFiles, ecFound>>
    /\ ResolverFrame

\* await this.cleanupTempFiles(outputFile) settles: every file whose name contains
\* the base name is unlinked, unless readdir or an unlink fails, which is only
\* logged; then the captions are returned.
CleanupSettles(left) ==
    /\ ecPc = "cleanup"
    /\ left \subseteq ecFiles
    /\ left = {} \/ left = ecFiles
    /\ ecFiles' = left
    /\ ecLog' = Append(ecLog, IF left = {} THEN "cleaned" ELSE "cleanupfailed")
    /\ ecPc' = "done"
    /\ ecResult' = [kind |-> "captions", file |-> ecFound]
    /\ UNCHANGED <<envVars, videoVars, ecFound>>
    /\ ResolverFrame

ResolverInit ==
    /\ nodeEnv \in NodeEnvs
    /\ apiKey \in BOOLEAN
    /\ answers = [k \in 1..Len(ScenarioSources) |-> "fail"]
    /\ vdPc = "idle"
    /\ vdId = ""
    /\ vdAttempts = 0
    /\ vdResult = NoVideoResult
    /\ ecPc = "idle"
    /\ ecFiles = {}
    /\ ecFound = "null"
    /\ ecLog = <<>>
    /\ ecResult = NoCaptionResult

\* The components a specification does not exercise stay as constructed, in
\* development mode with an API key.
ResolverIdle ==
    /\ ResolverInit
    /\ nodeEnv = "development"
    /\ apiKey = TRUE

ResolverNext ==
    \/ \E videoId \in VideoIds :
         \E net \in [1..Len(ScenarioSources) -> VideoAnswers] :
            GetVideoDetailsCall(videoId, net)
    \/ VideoRequestSettles
    \/ ExtractCaptionsCall
    \/ \E outcome \in {"ok", "error", "timeout"} :
         \E written \in ExecWrites : ExecSettles(outcome, written)
    \/ FindSettles
    \/ \E outcome \in {"parsed", "parsefailed"} : ParseSettles(outcome)
    \/ \E left \in SUBSET ecFiles : CleanupSettles(left)

\* ------------------------------------------------------------------------
\* TranscriptProcessor: the enrichment pipeline
\* ------------------------------------------------------------------------
\* A text is described by what the code looks at: whether the value is a string
\* at all (an entry or sentence without a text field reads as undefined), its
\* identity, text.split(' ').length, whether /(\w{8,})/ matches, whether
\* /[.!?]/ matches, and whether a pattern of the phrase table matches the text
\* as written ("exact"), only after toLowerCase() ("lower"), or not at all.
Text(s, n, long, term, phrase) ==
    [def |-> TRUE, id |-> <<s>>, n |-> n, long |-> long, term |-> term, phrase |-> phrase]

NoText ==
    [def |-> FALSE, id |-> <<>>, n |-> 0, long |-> FALSE, term |-> FALSE, phrase |-> "none"]

\* The empty string: ''.split(' ') has one element.
TextEmpty == Text("", 1, FALSE, FALSE, "none")

TextHello == Text("Hello world.", 2, FALSE, TRUE, "none")

TextTest == Text("This is a test", 4, FALSE, FALSE, "none")

TextThankYou == Text("thank you", 2, FALSE, FALSE, "exact")

TextWatching == Text("for watching everyone!", 3, TRUE, TRUE, "none")

TextMock == Text("Thank you for watching and happy learning!", 7, TRUE, TRUE, "lower")

\* a + ' ' + b for two non-empty texts (a phrase across the joint is not modelled).
Join(a, b) ==
    [def |-> TRUE, id |-> a.id \o b.id, n |-> a.n + b.n,
     long |-> a.long \/ b.long, term |-> a.term \/ b.term,
     phrase |-> IF "exact" \in {a.phrase, b.phrase} THEN "exact"
                ELSE IF "lower" \in {a.phrase, b.phrase} THEN "lower" ELSE "none"]

Entry(text, start, duration) == [text |-> text, start |-> start, duration |-> duration]

\* The transcriptEntries argument: an array of entries, or a value that is not
\* an array.
Entries(items) == [isArray |-> TRUE, items |-> items]

NotAnArray == [isArray |-> FALSE, items |-> <<>>]

EntriesEmpty == Entries(<<>>)

\* The spec's scenario: [{"Hello world.", 0, 2}, {"This is a test", 2, 3}].
EntriesScenario == Entries(<<Entry(TextHello, 0, 2), Entry(TextTest, 2, 3)>>)

\* Auto-captions: lower case, a sentence running over two entries.
EntriesCaptions == Entries(<<Entry(TextThankYou, 0, 1), Entry(TextWatching, 1, 2)>>)

\* The last line of getMockCaptions.
EntriesMock == Entries(<<Entry(TextMock, 25, 5)>>)

\* What parseVTTFile returns for a cue without text lines that another cue
\* follows: an entry whose text is the empty string.
EntriesBlank == Entries(<<Entry(TextEmpty, 0, 1)>>)

\* A malformed list: an entry without text.
EntriesNoText == Entries(<<Entry(NoText, 0, 1)>>)

EntryLists ==
    {EntriesEmpty, EntriesScenario, EntriesCaptions, EntriesMock, EntriesBlank,
     EntriesNoText, NotAnArray}

TranscriptVideoIds == {<<"dQw4w9WgXcQ">>}

Languages == {<<"en">>, <<"hi">>}

\* `transcript_${videoId}_${language}`: the pieces joined by "_".
cacheKey(videoId, language) == <<"transcript">> \o videoId \o language

\* JavaScript numbers, as far as the insights need them: an integer or NaN.
Number(n) == [nan |-> FALSE, n |-> n]

NaN == [nan |-> TRUE, n |-> 0]

Increment(x) == IF x.nan THEN NaN ELSE Number(x.n + 1)

\* Math.round(a / b) for a >= 0 and b >= 0.
RoundedQuotient(a, b) == IF b = 0 THEN NaN ELSE Number((2 * a + b) \div (2 * b))

Levels == {"A1", "A2", "B1", "B2", "C1", "C2"}

\* ---- OpenRouterService fallbacks (OpenRouterService.js:219-284)
RECURSIVE splitFrom(_, _, _, _, _)
splitFrom(items, index, currentSentence, currentStart, sentences) ==
    IF index > Len(items) THEN sentences
    ELSE LET entry == items[index]
             joined == IF currentSentence = <<>> THEN entry.text
                       ELSE Join(currentSentence[1], entry.text)
         IN IF entry.text.term \/ index = Len(items)
            THEN splitFrom(items, index + 1, <<>>, entry.start + entry.duration,
                     Append(sentences,
                            [text |-> joined, start |-> currentStart,
                             duration |-> entry.start + entry.duration - currentStart]))
            ELSE splitFrom(items, index + 1, <<joined>>, currentStart, sentences)

\* entry.text.match(...) throws on an entry without text.
fallbackSentenceSplitThrows(items) == \E i \in DOMAIN items : ~items[i].text.def

fallbackSentenceSplit(items) ==
    splitFrom(items, 1, <<>>, IF Len(items) > 0 THEN items[1].start ELSE 0, <<>>)

\* The pattern is tested on the lower-cased text and matched on the text as
\* written: match() returns null, and null[0] throws, when only the lower-cased
\* text contains the phrase.
fallbackPhraseExtractionThrows(text) == text.phrase = "lower"

\* The phrases found, by type (the table holds no idiom).
fallbackPhraseExtraction(text) ==
    IF text.phrase = "exact" THEN <<"common_phrase">> ELSE <<>>

fallbackComplexityAnalysis(text) ==
    [level |-> IF text.n > 15 \/ text.long THEN "B1" ELSE "A2",
     complexity_score |-> IF text.n > 15 THEN 6 ELSE 3]

\* vocabulary_level of the same object: hasComplexWords alone.
fallbackVocabularyLevel(text) == IF text.long THEN "intermediate" ELSE "basic"

\* ---- what the inference service answers
\* fixTranscript: the corrected text comes back, or makeRequest throws.
FixOutcomes == {"ok", "fail"}

\* splitIntoSentences: makeRequest throws ("fail"), the content is not JSON
\* ("unparseable"), or JSON.parse gives: the sentences a careful splitter would
\* return ("sentences"), an empty array ("empty"), an array holding an object
\* without text ("notext"), or a value that is not an array ("notarray").
SplitOutcomes == {"fail", "unparseable", "sentences", "empty", "notext", "notarray"}

\* extractPhrases: "fail", "unparseable", or JSON.parse gives an empty array
\* ("none"), an array with one idiom ("idiom"), or an object ("notarray").
PhraseOutcomes == {"fail", "unparseable", "none", "idiom", "notarray"}

\* analyzeComplexity: "fail", "unparseable", or JSON.parse gives an object of
\* level B2 ("B2"), an object without level ("nolevel"; also what
\* `complexity || {}` makes of null), or an object of a level outside the
\* scale ("C3").
ComplexityOutcomes == {"fail", "unparseable", "B2", "nolevel", "C3"}

\* translateText: "fail", a translation ("ok") or the empty string ("empty");
\* "skipped" when the language is 'en' and no call is made.
TranslationOutcomes == {"fail", "ok", "empty"}

\* An absent property reads as undefined: the level is then the key
\* "undefined", the score is modelled as 0.
complexityAnswer(outcome, text) ==
    CASE outcome = "unparseable" -> fallbackComplexityAnalysis(text)
      [] outcome = "B2" -> [level |-> "B2", complexity_score |-> 5]
      [] outcome = "C3" -> [level |-> "C3", complexity_score |-> 9]
      [] OTHER -> [level |-> "undefined", complexity_score |-> 0]

phrasesAnswer(outcome, text) ==
    CASE outcome = "unparseable" -> fallbackPhraseExtraction(text)
      [] outcome = "idiom" -> <<"idiom">>
      [] OTHER -> <<>>

translated(text, language) == [text EXCEPT !.id = language \o @]

\* ---- TranscriptProcessor (YouTubeService.js:518-792)
NoInsights ==
    [totalSentences |-> 0, totalWords |-> 0, totalPhrases |-> 0,
     averageSentenceLength |-> NaN,
     difficultyDistribution |-> [level \in Levels |-> NaN]]

\* The result slot of an invocation that has not returned an artifact.
NoArtifact ==
    [kind |-> "none", processedAt |-> 0, videoId |-> <<>>, language |-> <<>>,
     originalEntryCount |-> 0, processedSentenceCount |-> 0, sentences |-> <<>>,
     insights |-> NoInsights]

\* The number of inference calls processSentences makes for one sentence.
subCalls(language) == IF language # <<"en">> THEN 3 ELSE 2

\* (mutant) `translation || ''`: without a translation the field stays empty.
enrichedSentenceUntranslated(index, sentence, phrases, complexity, translation) ==
    [id |-> index - 1,
     originalText |-> sentence.text,
     translatedText |-> IF translation = <<>> THEN TextEmpty ELSE translation[1],
     startTime |-> sentence.start,
     duration |-> sentence.duration,
     phrases |-> phrases,
     complexity |-> complexity,
     wordCount |-> sentence.text.n,
     hasIdioms |-> \E i \in DOMAIN phrases : phrases[i] = "idiom"]

\* The record pushed for a sentence whose three results arrived.
enrichedSentence(index, sentence, phrases, complexity, translation) ==
    [id |-> index - 1,
     originalText |-> sentence.text,
     translatedText |-> IF translation = <<>> THEN sentence.text ELSE translation[1],
     startTime |-> sentence.start,
     duration |-> sentence.duration,
     phrases |-> phrases,
     complexity |-> complexity,
     wordCount |-> sentence.text.n,
     hasIdioms |-> \E i \in DOMAIN phrases : phrases[i] = "idiom"]

\* The record pushed by the catch block of processSentences.
fallbackSentence(index, sentence) ==
    [id |-> index - 1,
     originalText |-> sentence.text,
     translatedText |-> sentence.text,
     startTime |-> sentence.start,
     duration |-> sentence.duration,
     phrases |-> <<>>,
     complexity |-> [level |-> "A2", complexity_score |-> 3],
     wordCount |-> sentence.text.n,
     hasIdioms |-> FALSE]

\* sentences.reduce((sum, sentence) => sum + sentence.wordCount, 0)
wordTotal(sentences) == SumSeq([i \in DOMAIN sentences |-> sentences[i].wordCount])

\* sentences.reduce((sum, sentence) => sum + sentence.phrases.length, 0)
phraseTotal(sentences) == SumSeq([i \in DOMAIN sentences |-> Len(sentences[i].phrases)])

\* distribution[level]++ : a key the object does not have reads as undefined,
\* and undefined++ stores NaN under that key.
RECURSIVE countLevels(_, _)
countLevels(distribution, levels) ==
    IF Len(levels) = 0 THEN distribution
    ELSE LET level == Head(levels)
             next == IF level \in DOMAIN distribution
                     THEN [distribution EXCEPT ![level] = Increment(@)]
                     ELSE [key \in DOMAIN distribution \cup {level} |->
                              IF key = level THEN NaN ELSE distribution[key]]
         IN countLevels(next, Tail(levels))

calculateDifficultyDistribution(levels) ==
    countLevels([level \in Levels |-> Number(0)], levels)

generateLearningInsights(sentences) ==
    LET totalWords == wordTotal(sentences)
    IN [totalSentences |-> Len(sentences),
        totalWords |-> totalWords,
        totalPhrases |-> phraseTotal(sentences),
        averageSentenceLength |-> RoundedQuotient(totalWords, Len(sentences)),
        difficultyDistribution |->
            calculateDifficultyDistribution(
                [i \in DOMAIN sentences |-> sentences[i].complexity.level])]

\* entry.text.split(' ') throws on an entry without text; map throws on a value
\* that is not an array.
fallbackProcessingThrows(entries) ==
    \/ ~entries.isArray
    \/ \E i \in DOMAIN entries.items : ~entries.items[i].text.def

\* (mutant) a passthrough that grades each entry by the complexity fallback rule.
fallbackProcessingByRule(entries, videoId, language, now) ==
    LET sentences ==
            [i \in DOMAIN entries.items |->
                [id |-> i - 1,
                 originalText |-> entries.items[i].text,
                 translatedText |-> entries.items[i].text,
                 startTime |-> entries.items[i].start,
                 duration |-> entries.items[i].duration,
                 phrases |-> <<>>,
                 complexity |-> fallbackComplexityAnalysis(entries.items[i].text),
                 wordCount |-> entries.items[i].text.n,
                 hasIdioms |-> FALSE]]
    IN [kind |-> "passthrough",
        processedAt |-> now,
        videoId |-> videoId,
        language |-> language,
        originalEntryCount |-> Len(entries.items),
        processedSentenceCount |-> Len(sentences),
        sentences |-> sentences,
        insights |->
            [totalSentences |-> Len(sentences),
             totalWords |-> wordTotal(sentences),
             totalPhrases |-> 0,
             averageSentenceLength |-> Number(0),
             difficultyDistribution |->
                 [level \in Levels |->
                     IF level = "A2" THEN Number(Len(sentences)) ELSE Number(0)]]]

fallbackProcessing(entries, videoId, language, now) ==
    LET sentences ==
            [i \in DOMAIN entries.items |->
                [id |-> i - 1,
                 originalText |-> entries.items[i].text,
                 translatedText |-> entries.items[i].text,
                 startTime |-> entries.items[i].start,
                 duration |-> entries.items[i].duration,
                 phrases |-> <<>>,
                 complexity |-> [level |-> "A2", complexity_score |-> 3],
                 wordCount |-> entries.items[i].text.n,
                 hasIdioms |-> FALSE]]
    IN [kind |-> "passthrough",
        processedAt |-> now,
        videoId |-> videoId,
        language |-> language,
        originalEntryCount |-> Len(entries.items),
        processedSentenceCount |-> Len(sentences),
        sentences |-> sentences,
        insights |->
            [totalSentences |-> Len(sentences),
             totalWords |-> wordTotal(sentences),
             totalPhrases |-> 0,
             averageSentenceLength |-> Number(0),
             difficultyDistribution |->
                 [level \in Levels |->
                     IF level = "A2" THEN Number(Len(sentences)) ELSE Number(0)]]]

\* ---- processTranscript, one action per suspension point
\* An invocation: its arguments, where it is suspended, what it holds, the
\* inference calls it has made, and how it ended; and, as history, how its
\* inference calls were answered: fixTranscript (fix), splitIntoSentences
\* (split), and the sub-calls of each sentence handled so far (answers).
NewCall(entries, videoId, language) ==
    [entries |-> entries, videoId |-> videoId, language |-> language,
     pc |-> "fix", sentences |-> <<>>, index |-> 0, processed |-> <<>>,
     inferences |-> 0, hit |-> FALSE, outcome |-> "none", artifact |-> NoArtifact,
     fix |-> "none", split |-> "none", answers |-> <<>>]

Returned(call, artifact) ==
    [call EXCEPT !.pc = "done", !.outcome = "returned", !.artifact = artifact]

\* The catch block of processTranscript: the passthrough artifact, or the
\* exception fallbackProcessing raises, which rejects the invocation.
Caught(call, c) ==
    IF fallbackProcessingThrows(call.entries)
    THEN [call EXCEPT !.pc = "done", !.outcome = "threw"]
    ELSE Returned(call, fallbackProcessing(call.entries, call.videoId, call.language, c))

\* The loop of processSentences reaches sentence `index`: its sub-calls start,
\* or the loop is over and generateLearningInsights is awaited.
AtSentence(call, index) ==
    IF index <= Len(call.sentences)
    THEN [call EXCEPT !.pc = "sentence", !.index = index,
                      !.inferences = @ + subCalls(call.language)]
    ELSE [call EXCEPT !.pc = "insights"]

Idle == \A c \in DOMAIN ptCalls : ptCalls[c].pc = "done"

\* A processor that never finds a key in its cache.
cacheHasNever(key) == FALSE

\* this.cache.has(cacheKey)
cacheHas(key) == key \in DOMAIN ptCache

\* (mutant) the catch block stores the passthrough artifact it returns.
cacheAfterCatchStoring(call) ==
    IF call.outcome = "returned" /\ call.artifact.kind = "passthrough"
    THEN [k \in DOMAIN ptCache \cup {cacheKey(call.videoId, call.language)} |->
             IF k = cacheKey(call.videoId, call.language) THEN call.artifact
             ELSE ptCache[k]]
    ELSE ptCache

\* this.cache after a step of the invocation `call` that may have ended in the
\* catch block: the block returns fallbackProcessing(...) and stores nothing.
cacheAfterCatch(call) == ptCache

\* processTranscript(transcriptEntries, videoId, language) is called, whatever
\* the invocations before it are doing, and runs to its first await.
ProcessTranscriptStarts(entries, videoId, language) ==
    /\ LET c == Len(ptCalls) + 1
           key == cacheKey(videoId, language)
           call == NewCall(entries, videoId, language)
       IN ptCalls' = Append(ptCalls,
              IF cacheHas(key)
              THEN Returned([call EXCEPT !.hit = TRUE], ptCache[key])
              ELSE IF ~entries.isArray
                   THEN Caught(call, c)
                   ELSE [call EXCEPT !.pc = "fix", !.inferences = 1])
    /\ ptCache' = cacheAfterCatch(ptCalls'[Len(ptCalls')])
    /\ PipelineFrame

\* processTranscript is called once the invocations before it have settled.
ProcessTranscriptCall(entries, videoId, language) ==
    /\ Idle
    /\ ProcessTranscriptStarts(entries, videoId, language)

\* (mutant) a failed fixTranscript is ignored and splitIntoSentences is called.
FixSettlesContinuing(c, outcome) ==
    /\ ptCalls[c].pc = "fix"
    /\ ptCalls' = [ptCalls EXCEPT ![c] =
           [@ EXCEPT !.fix = outcome, !.pc = "split", !.inferences = @ + 1]]
    /\ UNCHANGED ptCache
    /\ PipelineFrame

\* Step 1: fixTranscript settles; on success splitIntoSentences is called.
FixSettles(c, outcome) ==
    /\ ptCalls[c].pc = "fix"
    /\ ptCalls' = [ptCalls EXCEPT ![c] =
           IF outcome = "fail" THEN Caught([@ EXCEPT !.fix = outcome], c)
           ELSE [@ EXCEPT !.fix = outcome, !.pc = "split", !.inferences = @ + 1]]
    /\ ptCache' = cacheAfterCatch(ptCalls'[c])
    /\ PipelineFrame

\* What splitIntoSentences resolves with, given the answer of the service.
splitAnswer(outcome, entries) ==
    CASE outcome \in {"unparseable", "sentences"} ->
             Entries(fallbackSentenceSplit(entries.items))
      [] outcome = "empty" -> Entries(<<>>)
      [] outcome = "notext" -> Entries(<<[text |-> NoText, start |-> 0, duration |-> 1]>>)
      [] OTHER -> NotAnArray

\* (mutant) splitIntoSentences answers a failed call by the fallback split too.
SplitSettlesRecovering(c, outcome) ==
    /\ ptCalls[c].pc = "split"
    /\ outcome = "sentences" => ~fallbackSentenceSplitThrows(ptCalls[c].entries.items)
    /\ LET call == [ptCalls[c] EXCEPT !.split = outcome]
           rejected == /\ outcome \in {"fail", "unparseable"}
                       /\ fallbackSentenceSplitThrows(call.entries.items)
           answer == splitAnswer(IF outcome = "fail" THEN "unparseable" ELSE outcome,
                                 call.entries)
       IN ptCalls' = [ptCalls EXCEPT ![c] =
              IF rejected \/ ~answer.isArray THEN Caught(call, c)
              ELSE AtSentence([call EXCEPT !.sentences = answer.items], 1)]
    /\ UNCHANGED ptCache
    /\ PipelineFrame

\* Step 2: splitIntoSentences settles. A rejection (the call failed, or the
\* fallback split threw) and a value without entries() end in the catch block
\* of processTranscript; otherwise processSentences starts its loop.
SplitSettles(c, outcome) ==
    /\ ptCalls[c].pc = "split"
    /\ outcome = "sentences" => ~fallbackSentenceSplitThrows(ptCalls[c].entries.items)
    /\ LET call == [ptCalls[c] EXCEPT !.split = outcome]
           rejected == \/ outcome = "fail"
                       \/ /\ outcome = "unparseable"
                          /\ fallbackSentenceSplitThrows(call.entries.items)
           answer == splitAnswer(outcome, call.entries)
       IN ptCalls' = [ptCalls EXCEPT ![c] =
              IF rejected \/ ~answer.isArray THEN Caught(call, c)
              ELSE AtSentence([call EXCEPT !.sentences = answer.items], 1)]
    /\ ptCache' = cacheAfterCatch(ptCalls'[c])
    /\ PipelineFrame

\* (mutant) every sub-call is caught on its own: a failed one gives its
\* fallback value and the others keep theirs.
SentenceSettlesIndependently(c, phrases, complexity, translation) ==
    /\ ptCalls[c].pc = "sentence"
    /\ (translation = "skipped") <=> (ptCalls[c].language = <<"en">>)
    /\ LET call == [ptCalls[c] EXCEPT !.answers =
                       Append(@, [phrases |-> phrases, complexity |-> complexity,
                                  translation |-> translation])]
           sentence == call.sentences[call.index]
           text == sentence.text
           record ==
               enrichedSentence(call.index, sentence,
                   IF phrases = "idiom" THEN <<"idiom">> ELSE <<>>,
                   IF complexity = "fail"
                   THEN [level |-> "A2", complexity_score |-> 3]
                   ELSE complexityAnswer(complexity, text),
                   IF translation = "ok" THEN <<translated(text, call.language)>>
                   ELSE <<>>)
       IN ptCalls' = [ptCalls EXCEPT ![c] =
              IF ~text.def THEN Caught(call, c)
              ELSE [call EXCEPT !.processed = Append(@, record), !.pc = "delay"]]
    /\ UNCHANGED ptCache
    /\ PipelineFrame

\* Step 3: the Promise.all of one sentence settles. With every sub-call
\* fulfilled the enriched record is pushed and delay(100) awaited; a rejected
\* sub-call, or a phrases value without some(), lands in the catch block, which
\* pushes the fallback record and moves on to the next sentence at once. A
\* sentence without text makes the catch block throw as well.
SentenceSettles(c, phrases, complexity, translation) ==
    /\ ptCalls[c].pc = "sentence"
    /\ (translation = "skipped") <=> (ptCalls[c].language = <<"en">>)
    /\ LET call == [ptCalls[c] EXCEPT !.answers =
                       Append(@, [phrases |-> phrases, complexity |-> complexity,
                                  translation |-> translation])]
           sentence == call.sentences[call.index]
           text == sentence.text
           rejected ==
               \/ "fail" \in {phrases, complexity, translation}
               \/ phrases = "unparseable" /\ fallbackPhraseExtractionThrows(text)
           threw == phrases = "notarray"
           record ==
               enrichedSentence(call.index, sentence,
                   phrasesAnswer(phrases, text),
                   complexityAnswer(complexity, text),
                   IF translation = "ok" THEN <<translated(text, call.language)>>
                   ELSE <<>>)
       IN ptCalls' = [ptCalls EXCEPT ![c] =
              IF ~text.def THEN Caught(call, c)
              ELSE IF rejected \/ threw
                   THEN AtSentence(
                            [call EXCEPT !.processed =
                                Append(@, fallbackSentence(call.index, sentence))],
                            call.index + 1)
                   ELSE [call EXCEPT !.processed = Append(@, record), !.pc = "delay"]]
    /\ ptCache' = cacheAfterCatch(ptCalls'[c])
    /\ PipelineFrame

\* delay(100) is over: the loop goes on.
SentenceDelayElapsed(c) ==
    /\ ptCalls[c].pc = "delay"
    /\ ptCalls' = [ptCalls EXCEPT ![c] = AtSentence(@, @.index + 1)]
    /\ UNCHANGED ptCache
    /\ PipelineFrame

\* Step 4: generateLearningInsights settles; the result is built, stored under
\* the cache key and returned.
InsightsSettle(c) ==
    /\ ptCalls[c].pc = "insights"
    /\ LET call == ptCalls[c]
           result ==
               [kind |-> "enriched",
                processedAt |-> c,
                videoId |-> call.videoId,
                language |-> call.language,
                originalEntryCount |-> Len(call.entries.items),
                processedSentenceCount |-> Len(call.processed),
                sentences |-> call.processed,
                insights |-> generateLearningInsights(call.processed)]
           key == cacheKey(call.videoId, call.language)
       IN /\ ptCache' = [k \in DOMAIN ptCache \cup {key} |->
                            IF k = key THEN result ELSE ptCache[k]]
          /\ ptCalls' = [ptCalls EXCEPT ![c] = Returned(call, result)]
    /\ PipelineFrame

\* new TranscriptProcessor(): an empty cache, nothing invoked.
PipelineInit ==
    /\ ptCalls = <<>>
    /\ ptCache = <<>>

\* One invocation on a fresh processor, with every input list and every answer
\* of the inference service.
PipelineNext ==
    \/ /\ ptCalls = <<>>
       /\ \E entries \in EntryLists, videoId \in TranscriptVideoIds,
             language \in Languages :
                ProcessTranscriptCall(entries, videoId, language)
    \/ \E c \in DOMAIN ptCalls, outcome \in FixOutcomes : FixSettles(c, outcome)
    \/ \E c \in DOMAIN ptCalls, outcome \in SplitOutcomes : SplitSettles(c, outcome)
    \/ \E c \in DOMAIN ptCalls, phrases \in PhraseOutcomes,
          complexity \in ComplexityOutcomes,
          translation \in TranslationOutcomes \cup {"skipped"} :
             SentenceSettles(c, phrases, complexity, translation)
    \/ \E c \in DOMAIN ptCalls : SentenceDelayElapsed(c)
    \/ \E c \in DOMAIN ptCalls : InsightsSettle(c)

\* Up to MaxCalls invocations, one after the other, on one processor: a
\* well-formed and a malformed list, both languages, and of each inference call
\* a success and a failure.
CacheNext ==
    \/ /\ Len(ptCalls) < MaxCalls
       /\ \E entries \in {EntriesMock, EntriesNoText},
             videoId \in TranscriptVideoIds, language \in Languages :
                ProcessTranscriptCall(entries, videoId, language)
    \/ \E c \in DOMAIN ptCalls, outcome \in FixOutcomes : FixSettles(c, outcome)
    \/ \E c \in DOMAIN ptCalls, outcome \in {"fail", "sentences", "empty"} :
          SplitSettles(c, outcome)
    \/ \E c \in DOMAIN ptCalls, phrases \in {"fail", "idiom"},
          translation \in {"ok", "skipped"} :
             SentenceSettles(c, phrases, "B2", translation)
    \/ \E c \in DOMAIN ptCalls : SentenceDelayElapsed(c)
    \/ \E c \in DOMAIN ptCalls : InsightsSettle(c)

\* Up to MaxCalls invocations on one processor that may overlap in time: each
\* is called while the earlier ones are at any of their awaits. One entry list,
\* both languages; fixTranscript succeeds or fails, the other inference calls
\* succeed.
OverlapNext ==
    \/ /\ Len(ptCalls) < MaxCalls
       /\ \E videoId \in TranscriptVideoIds, language \in Languages :
             ProcessTranscriptStarts(EntriesMock, videoId, language)
    \/ \E c \in DOMAIN ptCalls, outcome \in FixOutcomes : FixSettles(c, outcome)
    \/ \E c \in DOMAIN ptCalls : SplitSettles(c, "sentences")
    \/ \E c \in DOMAIN ptCalls, translation \in {"ok", "skipped"} :
          SentenceSettles(c, "idiom", "B2", translation)
    \/ \E c \in DOMAIN ptCalls : SentenceDelayElapsed(c)
    \/ \E c \in DOMAIN ptCalls : InsightsSettle(c)

\* ------------------------------------------------------------------------
\* processSentences, sub-call by sub-call
\* ------------------------------------------------------------------------
\* The sub-calls Promise.all joins for one sentence.
subCallKinds(language) ==
    {"phrases", "complexity"} \cup (IF language # <<"en">> THEN {"translation"} ELSE {})

\* The loop reaches sentence `index`: its sub-calls start and Promise.all is
\* awaited, or the loop is over and processedSentences is returned.
loopAt(index, processed, orphans) ==
    /\ psProcessed' = processed
    /\ psOrphans' = orphans
    /\ IF index <= psSentences
       THEN /\ psPc' = "awaiting"
            /\ psIndex' = index
            /\ psPending' = {[sentence |-> index, kind |-> kind] :
                                kind \in subCallKinds(psLanguage)}
       ELSE /\ psPc' = "returned"
            /\ psIndex' = psIndex
            /\ psPending' = {}

\* processSentences(sentences, language) with n sentences.
ProcessSentencesCall(n, language) ==
    /\ psPc = "idle"
    /\ psLanguage' = language
    /\ psSentences' = n
    /\ IF n >= 1
       THEN /\ psPc' = "awaiting"
            /\ psIndex' = 1
            /\ psPending' = {[sentence |-> 1, kind |-> kind] :
                                kind \in subCallKinds(language)}
       ELSE /\ psPc' = "returned"
            /\ UNCHANGED <<psIndex, psPending>>
    /\ UNCHANGED <<psOrphans, psProcessed>>
    /\ SentenceFrame

\* A sub-call of the awaited Promise.all is fulfilled: with the last one the
\* enriched record is pushed and delay(100) awaited.
SubCallFulfilled(call) ==
    /\ psPc = "awaiting"
    /\ call \in psPending
    /\ psPending' = psPending \ {call}
    /\ IF psPending = {call}
       THEN /\ psProcessed' = Append(psProcessed,
                   [id |-> psIndex - 1, sentence |-> psIndex, kind |-> "enriched"])
            /\ psPc' = "delay"
       ELSE UNCHANGED <<psProcessed, psPc>>
    /\ UNCHANGED <<psLanguage, psSentences, psIndex, psOrphans>>
    /\ SentenceFrame

\* A sub-call of the awaited Promise.all is rejected: Promise.all rejects at
\* once, the catch block pushes the fallback record, and the loop goes on to
\* the next sentence while the sibling sub-calls are still running.
SubCallRejected(call) ==
    /\ psPc = "awaiting"
    /\ call \in psPending
    /\ loopAt(psIndex + 1,
              Append(psProcessed,
                     [id |-> psIndex - 1, sentence |-> psIndex, kind |-> "fallback"]),
              psOrphans \cup (psPending \ {call}))
    /\ UNCHANGED <<psLanguage, psSentences>>
    /\ SentenceFrame

\* A sub-call nobody waits for any more settles.
OrphanSettles(call) ==
    /\ call \in psOrphans
    /\ psOrphans' = psOrphans \ {call}
    /\ UNCHANGED <<psPc, psLanguage, psSentences, psIndex, psPending, psProcessed>>
    /\ SentenceFrame

\* delay(100) is over.
AnalysisDelayElapsed ==
    /\ psPc = "delay"
    /\ loopAt(psIndex + 1, psProcessed, psOrphans)
    /\ UNCHANGED <<psLanguage, psSentences>>
    /\ SentenceFrame

SentenceInit ==
    /\ psPc = "idle"
    /\ psLanguage = <<"en">>
    /\ psSentences = 0
    /\ psIndex = 0
    /\ psPending = {}
    /\ psOrphans = {}
    /\ psProcessed = <<>>

AllSubCalls ==
    {[sentence |-> k, kind |-> kind] :
        k \in 1..MaxSentences, kind \in {"phrases", "complexity", "translation"}}

SentenceNext ==
    \/ \E n \in 0..MaxSentences, language \in Languages : ProcessSentencesCall(n, language)
    \/ \E call \in AllSubCalls : SubCallFulfilled(call)
    \/ \E call \in AllSubCalls : SubCallRejected(call)
    \/ \E call \in AllSubCalls : OrphanSettles(call)
    \/ AnalysisDelayElapsed

\* ------------------------------------------------------------------------
\* YouTubeService: parseVTTFile and parseVTTTime
\* ------------------------------------------------------------------------
\* Times are whole milliseconds, so that SS.mmm is an integer. A timestamp string
\* is the sequence of the values of its fields between the colons, the last one
\* (SS.mmm) in milliseconds: 0:01:01.500 is <<0, 1, 1500>>, 01:01.500 is <<1, 1500>>.
MsPerMinute == 60000
MsPerHour == 3600000

\* A time written as H:MM:SS.mmm or, below one hour, as MM:SS.mmm.
writeTime(t, format) ==
    IF format = "H:MM:SS.mmm"
    THEN <<t \div MsPerHour, (t % MsPerHour) \div MsPerMinute, t % MsPerMinute>>
    ELSE <<t \div MsPerMinute, t % MsPerMinute>>

\* parseVTTTime(timeStr): only a string of three fields is converted.
parseVTTTime(timeStr) ==
    IF Len(timeStr) = 3
    THEN timeStr[1] * MsPerHour + timeStr[2] * MsPerMinute + timeStr[3]
    ELSE 0

\* The trimmed lines as the loop tells them apart: empty, 'WEBVTT', containing
\* '-->' (with the pieces split('-->') yields), a bare integer, anything else.
BlankLine == [kind |-> "blank", times |-> <<>>, text |-> ""]
HeaderLine == [kind |-> "WEBVTT", times |-> <<>>, text |-> "WEBVTT"]
IndexLine == [kind |-> "digits", times |-> <<>>, text |-> "1"]
TimingLine(start, end) == [kind |-> "-->", times |-> <<start, end>>, text |-> "-->"]
TextLine(text) == [kind |-> "text", times |-> <<>>, text |-> text]

\* The known cues a file is written from: start and end (one cue ends before it
\* starts), the timestamp format, its text lines, and the shape of its block:
\* "plain"; "indexed", with an index line; "stray", followed after its blank
\* line by a line of text (a note, or the identifier of the next cue);
\* "arrows", its timestamp line holding a second '-->'.
CueTimes == {<<1000, 4000>>, <<61500, 3725250>>, <<4000, 1000>>}
CueTexts == {<<"Hello">>, <<"Hello", "world">>}
CueShapes == {"plain", "indexed", "stray", "arrows"}
Cues ==
    {[start |-> t[1], end |-> t[2], format |-> f, shape |-> x, text |-> txt] :
        t \in CueTimes, f \in {"H:MM:SS.mmm", "MM:SS.mmm"},
        x \in CueShapes, txt \in CueTexts}

\* MM:SS.mmm is a cue whose times are below one hour.
WellFormedCues == {cue \in Cues : cue.format = "MM:SS.mmm" => cue.end < MsPerHour}

CueLists == UNION {[1..n -> WellFormedCues] : n \in 0..MaxCues}

\* The line of text that follows the block of a "stray" cue.
StrayLine == TextLine("intro")

\* A line "start --> end --> end": split('-->') yields three pieces.
TwoArrowsLine(start, end) ==
    [kind |-> "-->", times |-> <<start, end, end>>, text |-> "-->"]

\* The block of one cue: optional index line, timestamp line, text lines, and the
\* blank line that ends the block.
cueBlock(cue) ==
    (IF cue.shape = "indexed" THEN <<IndexLine>> ELSE <<>>)
    \o (IF cue.shape = "arrows"
        THEN <<TwoArrowsLine(writeTime(cue.start, cue.format),
                             writeTime(cue.end, cue.format))>>
        ELSE <<TimingLine(writeTime(cue.start, cue.format),
                          writeTime(cue.end, cue.format))>>)
    \o [k \in 1..Len(cue.text) |-> TextLine(cue.text[k])]
    \o <<BlankLine>>
    \o (IF cue.shape = "stray" THEN <<StrayLine, BlankLine>> ELSE <<>>)

RECURSIVE cueBlocks(_)
cueBlocks(cues) ==
    IF cues = <<>> THEN <<>> ELSE cueBlock(Head(cues)) \o cueBlocks(Tail(cues))

\* The lines of the cue file of a list of cues.
cueFile(cues) == <<HeaderLine, BlankLine>> \o cueBlocks(cues)

\* currentCaption = null
NoCaption == [null |-> TRUE, obj |-> 0, start |-> 0, end |-> 0, text |-> <<>>]

\* The caption object created at line `at`; obj is its identity. The text of a
\* caption is the sequence of the lines joined by single spaces; the empty
\* sequence is the empty string.
newCaption(times, at) ==
    [null |-> FALSE, obj |-> at, start |-> parseVTTTime(times[1]),
     end |-> parseVTTTime(times[2]), text |-> <<>>]

\* captions.map(...): text, start and duration = end - start.
timedEntry(caption) ==
    [text |-> caption.text, start |-> caption.start,
     duration |-> caption.end - caption.start]

\* parseVTTFile(content) on the file of a list of cues, up to the loop.
ParseVTTFileCall(cues) ==
    /\ vttPc = "idle"
    /\ vttPc' = "walking"
    /\ vttCues' = cues
    /\ lines' = cueFile(cues)
    /\ lineNo' = 1
    /\ currentCaption' = NoCaption
    /\ captions' = <<>>
    /\ UNCHANGED parsed
    /\ ParserFrame

AtLine == vttPc = "walking" /\ lineNo <= Len(lines)

\* An empty line or the line 'WEBVTT': continue.
LineSkipped ==
    /\ AtLine
    /\ lines[lineNo].kind \in {"blank", "WEBVTT"}
    /\ lineNo' = lineNo + 1
    /\ UNCHANGED <<vttPc, vttCues, lines, currentCaption, captions, parsed>>
    /\ ParserFrame

\* A line containing '-->': the caption at hand is pushed, and a new one begins
\* if the line splits into exactly two pieces.
LineOfTimes ==
    /\ AtLine
    /\ lines[lineNo].kind = "-->"
    /\ captions' = IF currentCaption.null THEN captions
                   ELSE Append(captions, currentCaption)
    /\ currentCaption' = IF Len(lines[lineNo].times) = 2
                         THEN newCaption(lines[lineNo].times, lineNo)
                         ELSE currentCaption
    /\ lineNo' = lineNo + 1
    /\ UNCHANGED <<vttPc, vttCues, lines, parsed>>
    /\ ParserFrame

\* Any other line that is not a bare integer, with a caption at hand: its text
\* is appended. captions holds references: if the caption at hand was pushed
\* already, the pushed caption is this object and shows the appended text.
LineOfText ==
    /\ AtLine
    /\ lines[lineNo].kind = "text"
    /\ ~currentCaption.null
    /\ LET appended == [currentCaption EXCEPT !.text = Append(@, lines[lineNo].text)]
       IN /\ currentCaption' = appended
          /\ captions' = [k \in DOMAIN captions |->
                            IF captions[k].obj = currentCaption.obj
                            THEN appended ELSE captions[k]]
    /\ lineNo' = lineNo + 1
    /\ UNCHANGED <<vttPc, vttCues, lines, parsed>>
    /\ ParserFrame

\* A bare integer, or a text line with no caption at hand: nothing happens.
LineIgnored ==
    /\ AtLine
    /\ \/ lines[lineNo].kind = "digits"
       \/ lines[lineNo].kind = "text" /\ currentCaption.null
    /\ lineNo' = lineNo + 1
    /\ UNCHANGED <<vttPc, vttCues, lines, currentCaption, captions, parsed>>
    /\ ParserFrame

\* After the loop: the caption at hand is pushed if it has text, and the
\* captions are mapped to timed entries.
EndOfLines ==
    /\ vttPc = "walking"
    /\ lineNo > Len(lines)
    /\ LET all == IF ~currentCaption.null /\ currentCaption.text # <<>>
                  THEN Append(captions, currentCaption)
                  ELSE captions
       IN /\ captions' = all
          /\ parsed' = [k \in 1..Len(all) |-> timedEntry(all[k])]
    /\ vttPc' = "returned"
    /\ UNCHANGED <<vttCues, lines, lineNo, currentCaption>>
    /\ ParserFrame

ParserInit ==
    /\ vttPc = "idle"
    /\ vttCues = <<>>
    /\ lines = <<>>
    /\ lineNo = 1
    /\ currentCaption = NoCaption
    /\ captions = <<>>
    /\ parsed = <<>>

ParserNext ==
    \/ \E cues \in CueLists : ParseVTTFileCall(cues)
    \/ LineSkipped
    \/ LineOfTimes
    \/ LineOfText
    \/ LineIgnored
    \/ EndOfLines

\* ------------------------------------------------------------------------
\* extractVideoId (YouTubeService and VideoPlayer)
\* ------------------------------------------------------------------------
\* Strings are sequences of characters.
YoutubeCom == <<"y", "o", "u", "t", "u", "b", "e", ".", "c", "o", "m", "/">>
YoutuBe == <<"y", "o", "u", "t", "u", ".", "b", "e", "/">>
Watch == <<"w", "a", "t", "c", "h">>
Embed == <<"e", "m", "b", "e", "d", "/">>
Https == <<"h", "t", "t", "p", "s", ":", "/", "/">>
Www == <<"w", "w", "w", ".">>
RickId == <<"d", "Q", "w", "4", "w", "9", "W", "g", "X", "c", "Q">>
OtherId == <<"a", "b", "c", "-", "D", "E", "F", "_", "1", "2", "3">>
TenChars == <<"d", "Q", "w", "4", "w", "9", "W", "g", "X", "c">>
NotAUrl == <<"n", "o", "t", " ", "a", " ", "u", "r", "l">>
HelloWorld == <<"h", "e", "l", "l", "o", " ", "w", "o", "r", "l", "d">>
TimeParam == <<"&", "t", "=", "1", "0">>
PlaylistParam == <<"l", "i", "s", "t", "=", "P", "L", "1">>

\* null
Null == <<"null">>

Classes == {"YouTubeService", "VideoPlayer"}

\* The url arguments: the empty string, a sentence, 11 characters that are no
\* id, bare ids, and ids in the long, short, embed and /v/ forms of a URL, with
\* or without scheme and host prefix, with or without a parameter before or
\* after the id; and URLs whose id part has 10 characters only.
ElevenCharIds == {RickId, OtherId}
UrlPrefixes == {<<>>, Https, Https \o Www}
UrlSuffixes == {<<>>, TimeParam}
Urls ==
    {<<>>, NotAUrl, HelloWorld, TenChars}
    \cup ElevenCharIds
    \cup {prefix \o form \o id \o suffix :
            prefix \in UrlPrefixes,
            form \in {YoutubeCom \o Watch \o <<"?", "v", "=">>,
                      YoutubeCom \o Watch \o <<"?">> \o PlaylistParam \o <<"&", "v", "=">>,
                      YoutubeCom \o Embed,
                      YoutubeCom \o <<"v", "/">>,
                      YoutuBe},
            id \in ElevenCharIds \cup {TenChars},
            suffix \in UrlSuffixes}

SetMin(S) == CHOOSE x \in S : \A y \in S : x <= y
SetMax(S) == CHOOSE x \in S : \A y \in S : x >= y

\* url.includes(c)
includes(url, c) == \E k \in DOMAIN url : url[k] = c

\* The literal lit stands in url at position p.
litAt(url, p, lit) ==
    /\ p + Len(lit) - 1 <= Len(url)
    /\ \A k \in 1..Len(lit) : url[p + k - 1] = lit[k]

\* [^"&?\/\s]
idChar(c) == c \notin {"\"", "&", "?", "/", " "}

\* ([^"&?\/\s]{11}) matches at position p.
idAt(url, p) ==
    /\ p + 10 <= Len(url)
    /\ \A k \in p..(p + 10) : idChar(url[k])

\* The first pattern tried at position p: where its group begins, 0 if it does
\* not match there. After youtube.com/ the alternatives are tried in order:
\* [^/]+/.+/ (both greedy, so the last slash that an id follows), then v/,
\* embed/ or e/, then .*[?&]v= (greedy, so the last such parameter that an id
\* follows); the other branch is youtu.be/.
generalPatternAt(url, p) ==
    IF litAt(url, p, YoutubeCom)
    THEN LET q == p + Len(YoutubeCom)
             slashes == {k \in q..Len(url) : url[k] = "/"}
             paths == IF slashes # {} /\ SetMin(slashes) > q
                      THEN {r \in (SetMin(slashes) + 2)..Len(url) :
                                url[r] = "/" /\ idAt(url, r + 1)}
                      ELSE {}
             params == {r \in q..Len(url) :
                           /\ url[r] \in {"?", "&"}
                           /\ litAt(url, r + 1, <<"v", "=">>)
                           /\ idAt(url, r + 3)}
         IN IF paths # {} THEN SetMax(paths) + 1
            ELSE IF litAt(url, q, <<"v", "/">>) /\ idAt(url, q + 2) THEN q + 2
            ELSE IF litAt(url, q, Embed) /\ idAt(url, q + Len(Embed))
                 THEN q + Len(Embed)
            ELSE IF litAt(url, q, <<"e", "/">>) /\ idAt(url, q + 2) THEN q + 2
            ELSE IF params # {} THEN SetMax(params) + 3
            ELSE 0
    ELSE IF litAt(url, p, YoutuBe) /\ idAt(url, p + Len(YoutuBe))
         THEN p + Len(YoutuBe)
         ELSE 0

\* A pattern made of a literal followed by the group.
literalPatternAt(url, p, lit) ==
    IF litAt(url, p, lit) /\ idAt(url, p + Len(lit)) THEN p + Len(lit) ELSE 0

\* patterns[n] tried at position p.
patternAt(n, url, p) ==
    CASE n = 1 -> generalPatternAt(url, p)
      [] n = 2 -> literalPatternAt(url, p, YoutubeCom \o Watch \o <<"?", "v", "=">>)
      [] n = 3 -> literalPatternAt(url, p, YoutubeCom \o Embed)
      [] n = 4 -> literalPatternAt(url, p, YoutuBe)

NumPatterns == 4

\* url.match(patterns[n]): the group of the leftmost match, or null.
match(n, url) ==
    LET starts == {p \in 1..Len(url) : patternAt(n, url, p) # 0}
    IN IF starts = {} THEN Null
       ELSE LET g == patternAt(n, url, SetMin(starts))
            IN SubSeq(url, g, g + 10)

\* VideoPlayer only: "if it's already a video ID".
alreadyVideoId(which, url) ==
    /\ which = "VideoPlayer"
    /\ Len(url) = 11
    /\ ~includes(url, "/")
    /\ ~includes(url, ".")

\* extractVideoId(url) up to the loop over the patterns.
ExtractVideoIdCall(which, url) ==
    /\ evPc = "idle"
    /\ evWhich' = which
    /\ evUrl' = url
    /\ IF url = <<>>
       THEN evPc' = "returned" /\ evResult' = Null /\ UNCHANGED evPattern
       ELSE IF alreadyVideoId(which, url)
       THEN evPc' = "returned" /\ evResult' = url /\ UNCHANGED evPattern
       ELSE evPc' = "matching" /\ evPattern' = 1 /\ UNCHANGED evResult
    /\ VideoIdFrame

\* The pattern at hand matches: its group is returned.
PatternMatches ==
    /\ evPc = "matching"
    /\ evPattern <= NumPatterns
    /\ match(evPattern, evUrl) # Null
    /\ evResult' = match(evPattern, evUrl)
    /\ evPc' = "returned"
    /\ UNCHANGED <<evWhich, evUrl, evPattern>>
    /\ VideoIdFrame

\* The pattern at hand does not match: on to the next.
PatternFails ==
    /\ evPc = "matching"
    /\ evPattern <= NumPatterns
    /\ match(evPattern, evUrl) = Null
    /\ evPattern' = evPattern + 1
    /\ UNCHANGED <<evPc, evWhich, evUrl, evResult>>
    /\ VideoIdFrame

\* No pattern matched: return null.
NoPatternMatched ==
    /\ evPc = "matching"
    /\ evPattern > NumPatterns
    /\ evResult' = Null
    /\ evPc' = "returned"
    /\ UNCHANGED <<evWhich, evUrl, evPattern>>
    /\ VideoIdFrame

VideoIdInit ==
    /\ evPc = "idle"
    /\ evWhich = "YouTubeService"
    /\ evUrl = <<>>
    /\ evPattern = 1
    /\ evResult = Null

VideoIdNext ==
    \/ \E which \in Classes, url \in Urls : ExtractVideoIdCall(which, url)
    \/ PatternMatches
    \/ PatternFails
    \/ NoPatternMatched

\* ------------------------------------------------------------------------
\* The fallbacks of OpenRouterService, called on their own
\* ------------------------------------------------------------------------
\* Entry texts: one ending in a terminator, one without any, and one with a
\* terminator inside ("Dr. Smith" is no end of a sentence).
TextDoctor == Text("and Dr. Smith said", 4, FALSE, TRUE, "none")
SplitTexts == {TextHello, TextTest, TextDoctor}

\* What separates an entry from the one before it: nothing, a pause of one
\* second, or an overlap of one second (rolling captions).
Gaps == {0, 1, -1}

\* The sequences of timed entries with these texts: each entry lasts 2 seconds
\* and starts where the one before it ended, moved by its gap.
RECURSIVE timedFrom(_, _)
timedFrom(pairs, at) ==
    IF pairs = <<>> THEN <<>>
    ELSE LET start == Max(at + Head(pairs).gap, 0)
         IN <<Entry(Head(pairs).text, start, 2)>>
            \o timedFrom(Tail(pairs), start + 2)

SplitInputs ==
    {EntriesScenario.items}
    \cup UNION {{timedFrom(pairs, 0) :
                    pairs \in [1..n -> [text : SplitTexts, gap : Gaps]]} :
                n \in 0..MaxEntries}

\* fallbackSentenceSplit(transcriptEntries)
FallbackSentenceSplitCall(items) ==
    /\ fbPc = "idle"
    /\ fbArg' = items
    /\ fbResult' = fallbackSentenceSplit(items)
    /\ fbPc' = "returned"
    /\ FallbackFrame

\* The sentence texts handed to fallbackComplexityAnalysis: any word count up
\* to MaxWords, with or without a word of 8 characters.
ComplexityTexts ==
    {[def |-> TRUE, id |-> <<"sentence">>, n |-> n, long |-> long, term |-> term,
      phrase |-> phrase] :
        n \in 1..MaxWords, long \in BOOLEAN, term \in BOOLEAN,
        phrase \in {"none", "exact", "lower"}}

\* fallbackComplexityAnalysis(sentenceText)
FallbackComplexityAnalysisCall(text) ==
    /\ fbPc = "idle"
    /\ fbArg' = text
    /\ fbResult' = [level |-> fallbackComplexityAnalysis(text).level,
                    complexity_score |-> fallbackComplexityAnalysis(text).complexity_score,
                    vocabulary_level |-> fallbackVocabularyLevel(text)]
    /\ fbPc' = "returned"
    /\ FallbackFrame

FallbackInit ==
    /\ fbPc = "idle"
    /\ fbArg = <<>>
    /\ fbResult = <<>>

SplitNext == \E items \in SplitInputs : FallbackSentenceSplitCall(items)

ComplexityNext == \E text \in ComplexityTexts : FallbackComplexityAnalysisCall(text)

\* ------------------------------------------------------------------------
\* AIService: analyzePhrases, translateText, analyzeComplexity and their cache
\* ------------------------------------------------------------------------
\* Sentence texts, as sequences of characters, and str.charCodeAt(i).
CharCode == [c \in {"A", "B", "H", "a", "i"} |->
                CASE c = "A" -> 65 [] c = "B" -> 66 [] c = "H" -> 72
                  [] c = "a" -> 97 [] c = "i" -> 105]
SentenceTexts == {<<"A", "a">>, <<"B", "B">>, <<"H", "i">>}
SentenceIds == {"sentence_0", "sentence_1"}
TargetLanguages == {"hi", "es"}

\* hashString(str): hash = ((hash << 5) - hash) + char, i.e. 31 * hash + char.
\* (The texts are short enough for the 32-bit truncation never to act.)
RECURSIVE hashFrom(_, _, _)
hashFrom(str, i, hash) ==
    IF i > Len(str) THEN hash
    ELSE hashFrom(str, i + 1, (hash * 32 - hash) + CharCode[str[i]])

hashString(str) == hashFrom(str, 1, 0)

\* The cache key each method builds.
phrasesKey(call) == <<"phrases", call.sentenceId>>
translateKey(call) == <<"translate", call.language, hashString(call.text)>>
complexityKey(call) == <<"complexity", hashString(call.text)>>

keyFor(call) ==
    CASE call.method = "analyzePhrases" -> phrasesKey(call)
      [] call.method = "translateText" -> translateKey(call)
      [] call.method = "analyzeComplexity" -> complexityKey(call)

\* The calls: analyzePhrases(text, sentenceId), translateText(text, language),
\* analyzeComplexity(text). A parameter a method does not have is "".
AiCalls ==
    {[method |-> "analyzePhrases", text |-> t, sentenceId |-> id, language |-> ""] :
        t \in SentenceTexts, id \in SentenceIds}
    \cup {[method |-> "translateText", text |-> t, sentenceId |-> "", language |-> l] :
            t \in SentenceTexts, l \in TargetLanguages}
    \cup {[method |-> "analyzeComplexity", text |-> t, sentenceId |-> "", language |-> ""] :
            t \in SentenceTexts}

NoAiCall == [method |-> "none", text |-> <<>>, sentenceId |-> "", language |-> ""]

\* result.data of the backend: the analysis of the text (and language) sent;
\* hit tells a value read from the cache from one just computed.
dataFor(call) == [method |-> call.method, text |-> call.text, language |-> call.language]

NoData == [method |-> "none", text |-> <<>>, language |-> ""]

\* One of the three methods is called: a cached value is returned at once,
\* otherwise the request is sent.
AiMethodCall(call) ==
    /\ acPc \in {"idle", "returned", "threw"}
    /\ acCalls < MaxLookups
    /\ acCalls' = acCalls + 1
    /\ acCall' = call
    /\ IF keyFor(call) \in DOMAIN acCache
       THEN acPc' = "returned" /\ acResult' = acCache[keyFor(call)]
       ELSE acPc' = "requesting" /\ acResult' = NoData
    /\ UNCHANGED acCache
    /\ AiCacheFrame

\* The request settles with result.success: the data is cached and returned.
AiRequestSucceeds ==
    /\ acPc = "requesting"
    /\ acCache' = [k \in DOMAIN acCache \cup {keyFor(acCall)} |->
                      IF k = keyFor(acCall) THEN dataFor(acCall) ELSE acCache[k]]
    /\ acResult' = dataFor(acCall)
    /\ acPc' = "returned"
    /\ UNCHANGED <<acCall, acCalls>>
    /\ AiCacheFrame

\* makeRequest throws, or the result is no success: the error is rethrown.
AiRequestFails ==
    /\ acPc = "requesting"
    /\ acPc' = "threw"
    /\ UNCHANGED <<acCache, acCall, acResult, acCalls>>
    /\ AiCacheFrame

AiCacheInit ==
    /\ acCache = <<>>
    /\ acPc = "idle"
    /\ acCall = NoAiCall
    /\ acResult = NoData
    /\ acCalls = 0

AiCacheNext ==
    \/ \E call \in AiCalls : AiMethodCall(call)
    \/ AiRequestSucceeds
    \/ AiRequestFails

\* ------------------------------------------------------------------------
\* Specifications
\* ------------------------------------------------------------------------
Init == QueueInit /\ RetryInit /\ ResolverIdle /\ PipelineInit /\ SentenceInit /\ ParserInit
    /\ VideoIdInit /\ FallbackInit /\ AiCacheInit

InitResolver == QueueInit /\ RetryInit /\ ResolverInit /\ PipelineInit /\ SentenceInit /\ ParserInit
    /\ VideoIdInit /\ FallbackInit /\ AiCacheInit

SpecPipeline == Init /\ [][PipelineNext]_vars

SpecCache == Init /\ [][CacheNext]_vars

SpecOverlap == Init /\ [][OverlapNext]_vars

SpecSentences == Init /\ [][SentenceNext]_vars

SpecParser == Init /\ [][ParserNext]_vars

SpecVideoId == Init /\ [][VideoIdNext]_vars

SpecResolver == InitResolver /\ [][ResolverNext]_vars

SpecAiCache == Init /\ [][AiCacheNext]_vars

SpecSplit == Init /\ [][SplitNext]_vars

SpecComplexity == Init /\ [][ComplexityNext]_vars

SpecBacklog == Init /\ [][BacklogNext]_vars

\* The backlog when every started request settles, every continuation runs and
\* every delay and timer elapses; nothing obliges a caller to submit.
BacklogFairness ==
    /\ WF_vars(\E j \in 1..MaxBacklog : \E k \in 1..MaxRequests : SettleRequest(j, k))
    /\ WF_vars(\E j \in 1..MaxBacklog : ChunkSettled(j))
    /\ WF_vars(\E j \in 1..MaxBacklog : DelayElapsed(j))
    /\ WF_vars(CooldownElapsed)

SpecBacklogLive == Init /\ [][BacklogNext]_vars /\ BacklogFairness

SpecQueue == Init /\ [][QueueNext]_vars

SpecRetry == Init /\ [][RetryNext]_vars

\* ------------------------------------------------------------------------
\* Batch queue: properties
\* ------------------------------------------------------------------------
Active(j) == jobs[j].pc \in {"chunk", "delay"}

\* The requests of job j that have been started and have not settled.
InFlight(j) ==
    IF jobs[j].pc = "chunk" THEN jobs[j].batch \ DOMAIN jobs[j].batchResults ELSE {}


\* C1: the promise of batchProcess resolves with exactly one outcome per submitted
\* request, in the order of the request list; each outcome is a fulfilment or a
\* captured rejection (a request of unknown type yields a rejection), and none is
\* dropped whatever requests fail.
C1_OneOutcomePerRequest ==
    \A j \in DOMAIN jobs :
        jobs[j].promise.state = "resolved" =>
            LET out == jobs[j].promise.value
                reqs == jobs[j].requests
            IN /\ Len(out) = Len(reqs)
               /\ \A k \in 1..Len(reqs) :
                    /\ out[k].req = k
                    /\ out[k].status = settledStatus(reqs[k])
                    /\ out[k].status \in {"fulfilled", "rejected"}

\* C1 witness: a job of more than one chunk with a request of unknown type has
\* been resolved.
C1_Witness ==
    \E j \in DOMAIN jobs :
        /\ jobs[j].promise.state = "resolved"
        /\ Len(jobs[j].requests) > batchSize
        /\ \E k \in 1..Len(jobs[j].requests) : jobs[j].requests[k] = "unknown"

\* C2: at most one job is active at any time: no request of a job is started, and
\* no job is between its chunks, while another job has started and is not resolved.
C2_SingleActiveJob ==
    \A j1, j2 \in DOMAIN jobs :
        (Active(j1) /\ Active(j2)) => j1 = j2

\* C2 witness: a job submitted while its predecessor was being processed runs its
\* second chunk after the predecessor was resolved.
C2_Witness ==
    /\ Len(jobs) >= 2
    /\ jobs[1].pc = "resolved"
    /\ Len(jobs[1].requests) > 0
    /\ jobs[2].pc = "chunk"
    /\ jobs[2].i > 0

\* C3: an active job runs its requests in consecutive chunks of batchSize (the last
\* may be smaller); a chunk starts only when every request before it has an outcome;
\* a failing request leaves its siblings running, so each chunk contributes one
\* outcome per request; at most batchSize requests of the queue are in flight. The
\* scenario's 7 requests with #4 failing run as chunks of 3, 3 and 1 and give 6
\* fulfilled outcomes and 1 rejected.
C3_Chunks ==
    /\ Cardinality(UNION {InFlight(j) : j \in DOMAIN jobs}) <= batchSize
    /\ \A j1, j2 \in DOMAIN jobs : (InFlight(j1) # {} /\ InFlight(j2) # {}) => j1 = j2
    /\ \A j \in DOMAIN jobs :
        LET job == jobs[j]
            n == Len(job.requests)
        IN /\ job.pc = "chunk" =>
                /\ job.i % batchSize = 0
                /\ Len(job.results) = job.i
                /\ job.batch = (job.i + 1)..Min(job.i + batchSize, n)
                /\ job.batch # {}
           /\ job.pc = "delay" => Len(job.results) = job.i + batchSize
           /\ \A c \in 1..Len(job.chunks) :
                /\ job.chunks[c] \in 1..batchSize
                /\ c < Len(job.chunks) => job.chunks[c] = batchSize
           /\ job.pc = "resolved" => SumSeq(job.chunks) = n
           /\ (job.pc = "resolved" /\ job.requests = ScenarioRequests) =>
                /\ job.chunks = <<3, 3, 1>>
                /\ Len(job.results) = 7
                /\ {k \in 1..7 : job.results[k].status = "rejected"} = {4}
                /\ Cardinality({k \in 1..7 : job.results[k].status = "fulfilled"}) = 6

\* C3 witness: the scenario's job has been resolved.
C3_Witness ==
    \E j \in DOMAIN jobs :
        jobs[j].pc = "resolved" /\ jobs[j].requests = ScenarioRequests

\* The chunks a job of n requests needs.
chunksOf(n) == (n + batchSize - 1) \div batchSize

\* The waits of every job: one delay of 1000 ms has been awaited before each
\* chunk but the first, and none after the last; the timer set when a job is
\* resolved is of 500 ms; while that timer is pending no job is active and the
\* queue stays marked busy.
C20_Waits ==
    /\ \A j \in DOMAIN jobs :
        LET job == jobs[j]
            n == Len(job.requests)
        IN /\ \A w \in DOMAIN job.waits : job.waits[w] = chunkDelay
           /\ job.pc = "queued" => job.waits = <<>>
           /\ job.pc = "chunk" => Len(job.waits) = Len(job.chunks) - 1
           /\ job.pc = "delay" =>
                Len(job.waits) = Len(job.chunks) /\ Len(job.chunks) < chunksOf(n)
           /\ job.pc = "resolved" =>
                /\ Len(job.waits) = Max(chunksOf(n) - 1, 0)
                /\ job.timer = cooldownDelay
           /\ job.pc # "resolved" => job.timer = 0
    /\ timers \in {0, 1}
    /\ timers = 1 =>
        /\ isProcessingQueue
        /\ \A j \in DOMAIN jobs : ~Active(j)
        /\ \E j \in DOMAIN jobs : jobs[j].pc = "resolved"

\* A job that waited in the queue leaves it only in a step in which the pending
\* 500 ms timer fires.
QueuedJobStartsOnTimer ==
    \A j \in DOMAIN jobs :
        (jobs[j].pc = "queued" /\ jobs'[j].pc # "queued") =>
            /\ timers = 1
            /\ \A other \in DOMAIN jobs : ~Active(other)

\* C20: a 1000 ms delay separates consecutive chunks of a job and none follows
\* its last chunk; after a job resolves a 500 ms cool-down precedes the start of
\* the next queued job, and no job starts during the cool-down.
C20_DelaysAndCooldown == []C20_Waits /\ [][QueuedJobStartsOnTimer]_vars

\* C20 witness: the first job took two chunks with one delay between them and is
\* resolved, and the job queued behind it, started by the timer, is in its own
\* inter-chunk delay.
C20_Witness ==
    /\ Len(jobs) >= 2
    /\ jobs[1].pc = "resolved"
    /\ Len(jobs[1].chunks) = 2
    /\ jobs[1].waits = <<chunkDelay>>
    /\ jobs[2].pc = "delay"
    /\ timers = 0

\* C21: the queue is FIFO: jobs become active, and their promises are resolved,
\* in the order of their submission (the order of the job table): a job has left
\* the queue only if every job submitted before it is resolved, and the queue
\* holds the waiting jobs in submission order.
C21_Fifo ==
    /\ \A i, j \in DOMAIN jobs :
          (i < j /\ jobs[j].pc # "queued") => jobs[i].promise.state = "resolved"
    /\ \A a, b \in DOMAIN requestQueue : a < b => requestQueue[a] < requestQueue[b]
    /\ \A a \in DOMAIN requestQueue : jobs[requestQueue[a]].pc = "queued"

\* C21 witness: two jobs waited in the queue together behind the first one, and
\* all three are resolved.
C21_Witness ==
    /\ Len(jobs) = 3
    /\ \A j \in DOMAIN jobs : jobs[j].promise.state = "resolved"
    /\ jobs[3].behind = 1

\* C28: every submitted job is eventually resolved, given that each of its
\* requests eventually settles, whether it was submitted on an idle queue, while
\* a job was running or during the cool-down; and once the queue is empty and
\* the cool-down has elapsed isProcessingQueue is false again.
C28_EveryJobResolved ==
    /\ \A j \in 1..MaxBacklog :
          (j \in DOMAIN jobs) ~>
              (j \in DOMAIN jobs /\ jobs[j].promise.state = "resolved")
    /\ (timers > 0 /\ requestQueue = <<>>) ~>
          (~isProcessingQueue \/ requestQueue # <<>>)
    /\ []<>(~isProcessingQueue)

\* C28 witness: three jobs, submitted on the idle queue, while a job was running
\* and during a cool-down, are all resolved and the queue is idle again.
C28_Witness ==
    /\ {jobs[j].during : j \in DOMAIN jobs} = {"idle", "running", "cooldown"}
    /\ \A j \in DOMAIN jobs : jobs[j].promise.state = "resolved"
    /\ ~isProcessingQueue
    /\ timers = 0

\* ------------------------------------------------------------------------
\* TranscriptProcessor: properties
\* ------------------------------------------------------------------------
keyOf(c) == cacheKey(ptCalls[c].videoId, ptCalls[c].language)

\* c1 and c2 are two invocations with the same (videoId, language), c2 the
\* next one after c1 with that key.
Consecutive(c1, c2) ==
    /\ c1 < c2
    /\ keyOf(c1) = keyOf(c2)
    /\ \A c \in DOMAIN ptCalls : c1 < c /\ c < c2 => keyOf(c) # keyOf(c1)

Completed(c) == ptCalls[c].outcome = "returned" /\ ptCalls[c].artifact.kind = "enriched"

\* C4 as stated: of two invocations with the same (videoId, language), the
\* first of which returned an artifact, the second makes no inference call and
\* returns the identical artifact, whatever happened during the first.
C4_SecondCallIsHit ==
    \A c1, c2 \in DOMAIN ptCalls :
        /\ c1 < c2
        /\ keyOf(c1) = keyOf(c2)
        /\ ptCalls[c1].outcome = "returned"
        /\ ptCalls[c2].pc = "done"
        => /\ ptCalls[c2].inferences = 0
           /\ ptCalls[c2].outcome = "returned"
           /\ ptCalls[c2].artifact = ptCalls[c1].artifact

\* C4, amended: of two successive invocations with the same (videoId, language),
\* if the first returned the enriched artifact (stages 1 to 4 completed, failed
\* sentences included) the second is a cache hit: it makes no inference call and
\* returns the identical artifact. If the first ended in the catch block
\* (passthrough artifact or exception) nothing was stored: the second is no
\* cache hit, makes inference calls again, and what it returns is another
\* artifact.
C4_HitAfterCompletedRun ==
    \A c1, c2 \in DOMAIN ptCalls :
        Consecutive(c1, c2) =>
            IF Completed(c1)
            THEN /\ ptCalls[c2].hit
                 /\ ptCalls[c2].pc = "done"
                 /\ ptCalls[c2].inferences = 0
                 /\ ptCalls[c2].outcome = "returned"
                 /\ ptCalls[c2].artifact = ptCalls[c1].artifact
            ELSE /\ ~ptCalls[c2].hit
                 /\ ptCalls[c2].inferences >= 1
                 /\ ptCalls[c2].outcome = "returned"
                        => ptCalls[c2].artifact # ptCalls[c1].artifact

\* Three invocations with one key: the first falls back after a failed
\* inference stage, the second runs the pipeline again and completes it, the
\* third is served from the cache.
C4_Witness ==
    \E c1, c2, c3 \in DOMAIN ptCalls :
        /\ Consecutive(c1, c2) /\ Consecutive(c2, c3)
        /\ ptCalls[c1].outcome = "returned"
        /\ ptCalls[c1].artifact.kind = "passthrough"
        /\ ptCalls[c1].inferences >= 1
        /\ Completed(c2) /\ ~ptCalls[c2].hit /\ ptCalls[c2].inferences >= 3
        /\ ptCalls[c3].hit /\ ptCalls[c3].inferences = 0
        /\ ptCalls[c3].artifact = ptCalls[c2].artifact

\* The invocation c ended in the catch block: with the passthrough artifact, or
\* with the exception fallbackProcessing raised.
EndedInCatch(c) ==
    /\ ptCalls[c].pc = "done"
    /\ ~ptCalls[c].hit
    /\ ~Completed(c)

\* Every artifact in the cache was stored by a run that reached the end of the
\* pipeline, under its own key.
CacheHoldsEnrichedOnly ==
    \A key \in DOMAIN ptCache :
        /\ ptCache[key].kind = "enriched"
        /\ cacheKey(ptCache[key].videoId, ptCache[key].language) = key

\* A step in which an invocation ends in the catch block leaves the cache as it
\* was.
CatchLeavesCache ==
    (\E c \in DOMAIN ptCalls' :
        /\ ptCalls'[c].pc = "done"
        /\ ~ptCalls'[c].hit
        /\ ptCalls'[c].outcome = "threw" \/ ptCalls'[c].artifact.kind = "passthrough"
        /\ c \in DOMAIN ptCalls => ptCalls[c].pc # "done")
    => ptCache' = ptCache

\* C29: the artifact cache only ever holds artifacts of runs that completed the
\* pipeline: an invocation that ends in the passthrough fallback leaves the
\* cache unchanged, so that, nothing being cached for the pair, the next
\* invocation for the same (videoId, language) calls the inference service
\* again instead of serving the passthrough artifact.
C29_OnlyCompletedRunsCached ==
    /\ [](CacheHoldsEnrichedOnly
          /\ \A c1, c2 \in DOMAIN ptCalls :
                (Consecutive(c1, c2) /\ EndedInCatch(c1) /\ keyOf(c1) \notin DOMAIN ptCache)
                    => ~ptCalls[c2].hit /\ ptCalls[c2].inferences >= 1)
    /\ [][CatchLeavesCache]_vars

\* C29 witness: an invocation ended in the passthrough fallback with nothing
\* cached for its pair, and the next invocation for the pair is calling the
\* inference service again.
C29_Witness ==
    \E c1, c2 \in DOMAIN ptCalls :
        /\ Consecutive(c1, c2)
        /\ ptCalls[c1].outcome = "returned"
        /\ ptCalls[c1].artifact.kind = "passthrough"
        /\ keyOf(c1) \notin DOMAIN ptCache
        /\ ptCalls[c2].pc = "sentence"
        /\ ptCalls[c2].inferences >= 3

\* C5: an invocation given an array of entries, well-formed or not, ends by
\* returning an enriched or a passthrough artifact and never by an exception,
\* whatever the inference calls do.
C5_NeverThrows ==
    \A c \in DOMAIN ptCalls :
        ptCalls[c].pc = "done" /\ ptCalls[c].entries.isArray =>
            /\ ptCalls[c].outcome = "returned"
            /\ ptCalls[c].artifact.kind \in {"enriched", "passthrough"}

Sum(x, y) == IF x.nan \/ y.nan THEN NaN ELSE Number(x.n + y.n)

\* The sum of the values of a distribution object.
RECURSIVE valueTotal(_, _)
valueTotal(distribution, keys) ==
    IF keys = {} THEN Number(0)
    ELSE LET key == CHOOSE k \in keys : TRUE
         IN Sum(distribution[key], valueTotal(distribution, keys \ {key}))

\* C6: in every artifact returned, insights.totalSentences is the number of
\* sentences, insights.totalWords the sum of their wordCount, and every value
\* of difficultyDistribution a count >= 0, the counts adding up to
\* totalSentences.
C6_InsightsConsistent ==
    \A c \in DOMAIN ptCalls :
        ptCalls[c].outcome = "returned" =>
            LET artifact == ptCalls[c].artifact
                insights == artifact.insights
                distribution == insights.difficultyDistribution
            IN /\ insights.totalSentences = Len(artifact.sentences)
               /\ insights.totalWords = wordTotal(artifact.sentences)
               /\ \A key \in DOMAIN distribution :
                     ~distribution[key].nan /\ distribution[key].n >= 0
               /\ valueTotal(distribution, DOMAIN distribution)
                     = Number(insights.totalSentences)

\* Every inference call the invocation made was answered by a failure.
Unavailable(c) ==
    /\ ptCalls[c].fix \in {"none", "fail"}
    /\ ptCalls[c].split \in {"none", "fail"}
    /\ \A k \in DOMAIN ptCalls[c].answers :
          /\ ptCalls[c].answers[k].phrases = "fail"
          /\ ptCalls[c].answers[k].complexity = "fail"
          /\ ptCalls[c].answers[k].translation \in {"fail", "skipped"}

C14_CachedValueNeverReplaced ==
    [][\A key \in DOMAIN ptCache :
          key \in DOMAIN ptCache' /\ ptCache'[key] = ptCache[key]]_vars

\* The text is the empty string.
IsEmpty(text) == text.def /\ text.id = <<"">>

\* The sentences of the artifacts returned so far, each with the language of
\* its artifact.
ReturnedSentences ==
    UNION {{[language |-> ptCalls[c].artifact.language,
             sentence |-> ptCalls[c].artifact.sentences[k]] :
                k \in DOMAIN ptCalls[c].artifact.sentences} :
           c \in {d \in DOMAIN ptCalls : ptCalls[d].outcome = "returned"}}

\* The sub-call answers behind record k of the invocation c, which ran the
\* pipeline itself.
Analysed(c) == IF ptCalls[c].hit THEN {} ELSE DOMAIN ptCalls[c].processed

\* C15 as stated: in every sentence of every artifact translatedText is not
\* empty, and it equals originalText when the language is 'en' (no translation
\* call is made then) and when the translation call failed or returned nothing.
C15_TranslatedTextNeverEmpty ==
    /\ \A r \in ReturnedSentences :
          /\ ~IsEmpty(r.sentence.translatedText)
          /\ r.language = <<"en">> => r.sentence.translatedText = r.sentence.originalText
    /\ \A c \in DOMAIN ptCalls : \A k \in Analysed(c) :
          /\ ptCalls[c].answers[k].translation \in {"fail", "empty", "skipped"}
                => ptCalls[c].processed[k].translatedText
                       = ptCalls[c].processed[k].originalText
          /\ ptCalls[c].language = <<"en">>
                <=> ptCalls[c].answers[k].translation = "skipped"

\* C15, amended: translatedText equals originalText when the language is 'en'
\* (no translation call is made), when the translation call failed and when it
\* returned nothing; it is the translation when the sentence's sub-calls all
\* came back and the translation is not empty; and it is empty only where
\* originalText is empty.
C15_TranslatedTextDefaults ==
    /\ \A r \in ReturnedSentences :
          /\ IsEmpty(r.sentence.translatedText) => IsEmpty(r.sentence.originalText)
          /\ r.language = <<"en">> => r.sentence.translatedText = r.sentence.originalText
    /\ \A c \in DOMAIN ptCalls : \A k \in Analysed(c) :
          LET answer == ptCalls[c].answers[k]
              record == ptCalls[c].processed[k]
          IN /\ answer.translation \in {"fail", "empty", "skipped"}
                   => record.translatedText = record.originalText
             /\ ptCalls[c].language = <<"en">> <=> answer.translation = "skipped"
             /\ record.translatedText # record.originalText
                   => /\ answer.translation = "ok"
                      /\ record.translatedText.id
                            = ptCalls[c].language \o record.originalText.id

\* A Hindi artifact whose sentence came from an entry with empty text and
\* whose translation call returned nothing: translatedText is the empty
\* originalText.
C15_Witness ==
    \E c \in DOMAIN ptCalls :
        /\ ptCalls[c].outcome = "returned"
        /\ ptCalls[c].artifact.kind = "enriched"
        /\ ptCalls[c].language = <<"hi">>
        /\ \E k \in Analysed(c) :
              /\ ptCalls[c].answers[k].translation = "empty"
              /\ ptCalls[c].answers[k].phrases # "fail"
              /\ IsEmpty(ptCalls[c].artifact.sentences[k].translatedText)

SubCallFailed(c, k) ==
    LET answer == ptCalls[c].answers[k]
    IN \/ "fail" \in {answer.phrases, answer.complexity, answer.translation}
       \/ answer.phrases = "notarray"
       \/ /\ answer.phrases = "unparseable"
          /\ ptCalls[c].processed[k].originalText.phrase = "lower"

SubCallsInFlight == psPending \cup psOrphans

\* C19: sentences are analysed one at a time: the sub-calls in flight all
\* belong to one sentence, so at most 3 are in flight (2 for 'en'); and the
\* records come in the order of the segmented input, the record at position i
\* carrying the id of position i.
C19_OneSentenceAtATime ==
    /\ \A a, b \in SubCallsInFlight : a.sentence = b.sentence
    /\ Cardinality(SubCallsInFlight) <= subCalls(psLanguage)
    /\ \A i \in DOMAIN psProcessed :
          psProcessed[i].sentence = i /\ psProcessed[i].id = i - 1
    /\ psPc = "returned" => Len(psProcessed) = psSentences

\* C25: the scratch files of the caption extraction are deleted on every path
\* out of extractCaptions: once it has returned or raised, after a successful
\* parse as after a failed or timed-out subprocess, a missing subtitle file or
\* a failed parse, no scratch file remains.
C25_ScratchFilesDeleted == ecPc = "done" => ecFiles = {}

\* ------------------------------------------------------------------------
\* Subtitle parser: properties
\* ------------------------------------------------------------------------
\* The file holds nothing but blocks of index line, timestamp line and text
\* lines, separated by blank lines.
RegularFile == \A k \in DOMAIN vttCues : vttCues[k].shape \in {"plain", "indexed"}

\* C12: parser round-trip: the file of N cues of known start, end and text,
\* with timestamps written as H:MM:SS.mmm or as MM:SS.mmm, parses to exactly N
\* timed entries, in order, the entry of a cue having the cue's text, the cue's
\* start and the duration end - start.
C12_RoundTrip ==
    (vttPc = "returned" /\ RegularFile) =>
        /\ Len(parsed) = Len(vttCues)
        /\ \A k \in DOMAIN vttCues :
              /\ k \in DOMAIN parsed
              /\ parsed[k].text = vttCues[k].text
              /\ parsed[k].start = vttCues[k].start
              /\ parsed[k].duration = vttCues[k].end - vttCues[k].start

\* C24: every timed entry the parser produces has duration >= 0: for a cue whose
\* end is earlier than its start the duration is clamped to 0.
C24_DurationNonNegative ==
    vttPc = "returned" => \A k \in DOMAIN parsed : parsed[k].duration >= 0

\* C27: a blank line closes the current cue: a text line that follows a blank
\* line is never appended to the cue before the blank line; and a line that is
\* a bare integer is never appended to a cue's text.
AppendsToCaption ==
    /\ vttPc = "walking"
    /\ ~currentCaption.null
    /\ currentCaption'.obj = currentCaption.obj
    /\ Len(currentCaption'.text) > Len(currentCaption.text)

C27_BlankLineClosesCue ==
    [][AppendsToCaption =>
          /\ lines[lineNo].kind # "digits"
          /\ lineNo > 1 => lines[lineNo - 1].kind # "blank"]_vars

\* The lines of the file that contain '-->'.
TimestampLines == {k \in DOMAIN lines : lines[k].kind = "-->"}

\* C30: the parser emits each cue at most once, also for a file with a
\* timestamp line that holds more than one '-->': the entries are no more than
\* the timestamp lines, and no caption appears twice in the output.
C30_EachCueOnce ==
    vttPc = "returned" =>
        /\ Len(parsed) <= Cardinality(TimestampLines)
        /\ \A a, b \in DOMAIN captions :
              captions[a].obj = captions[b].obj => a = b

\* ------------------------------------------------------------------------
\* extractVideoId: properties
\* ------------------------------------------------------------------------
\* The id a url argument is for: the argument itself if it is a bare id, the id
\* it was composed with if it is a URL in one of the forms, null otherwise.
idOf(url) ==
    IF url \in ElevenCharIds THEN url
    ELSE LET ids == {id \in ElevenCharIds :
                       \E k \in 1..Len(url) :
                           /\ k + 10 <= Len(url)
                           /\ SubSeq(url, k, k + 10) = id}
         IN IF ids = {} THEN Null ELSE CHOOSE id \in ids : TRUE

\* C13: extractVideoId returns the 11-character id both for a URL in long,
\* short or embed form and for a bare id, and null for input that is neither:
\* "https://youtu.be/dQw4w9WgXcQ" and "dQw4w9WgXcQ" give "dQw4w9WgXcQ", and
\* "not a url" gives null.
C13_ExtractVideoId ==
    evPc = "returned" =>
        /\ evUrl \in ElevenCharIds => evResult = evUrl
        /\ evUrl = Https \o YoutuBe \o RickId => evResult = RickId
        /\ evUrl = NotAUrl => evResult = Null
        /\ evUrl \in {<<>>, HelloWorld, TenChars} => evResult = Null
        /\ idOf(evUrl) \in ElevenCharIds => evResult = idOf(evUrl)

\* ------------------------------------------------------------------------
\* Fallbacks: properties
\* ------------------------------------------------------------------------
\* The text ends in '.', '!' or '?'.
endsSentence(text) == text = TextHello

\* The groups the entries fall into when each group ends at the first entry
\* whose text ends in a terminator, or at the end of the list: the positions
\* of the first and the last entry of each group.
RECURSIVE groupsFrom(_, _, _)
groupsFrom(items, first, index) ==
    IF index > Len(items) THEN <<>>
    ELSE IF endsSentence(items[index].text) \/ index = Len(items)
         THEN <<[first |-> first, last |-> index]>>
              \o groupsFrom(items, index + 1, index + 1)
         ELSE groupsFrom(items, first, index + 1)

RECURSIVE idsOf(_, _, _)
idsOf(items, from, to) ==
    IF from > to THEN <<>> ELSE items[from].text.id \o idsOf(items, from + 1, to)

\* C22: the fallback split partitions the entries into consecutive groups, each
\* ending at the first entry whose text ends in '.', '!' or '?' (or at the end
\* of the list); every entry belongs to exactly one sentence; a sentence starts
\* at the start of the first entry of its group and start + duration is the end
\* of the last entry of its group. For the scenario's entries the last
\* sentence's start + duration does not exceed 5.
C22_SplitPartitions ==
    fbPc = "returned" =>
        LET groups == groupsFrom(fbArg, 1, 1)
        IN /\ Len(fbResult) = Len(groups)
           /\ \A g \in DOMAIN groups :
                /\ g \in DOMAIN fbResult
                /\ fbResult[g].text.id = idsOf(fbArg, groups[g].first, groups[g].last)
                /\ fbResult[g].start = fbArg[groups[g].first].start
                /\ fbResult[g].start + fbResult[g].duration
                     = fbArg[groups[g].last].start + fbArg[groups[g].last].duration
           /\ fbArg = EntriesScenario.items =>
                fbResult[Len(fbResult)].start + fbResult[Len(fbResult)].duration <= 5

\* The condition C: more than 15 words, or a word of 8 or more characters.
ComplexCondition(text) == text.n > 15 \/ text.long

\* C23: the complexity fallback is decided by the single condition C: level B1,
\* score 6 and the non-basic vocabulary level when C holds, level A2, score 3
\* and vocabulary level basic when it does not.
C23_OneCondition ==
    fbPc = "returned" =>
        IF ComplexCondition(fbArg)
        THEN /\ fbResult.level = "B1"
             /\ fbResult.complexity_score = 6
             /\ fbResult.vocabulary_level # "basic"
        ELSE /\ fbResult.level = "A2"
             /\ fbResult.complexity_score = 3
             /\ fbResult.vocabulary_level = "basic"

\* ------------------------------------------------------------------------
\* AIService sub-result cache: properties
\* ------------------------------------------------------------------------
\* C26: the sub-result caches are keyed by content: whatever analyzePhrases,
\* translateText or analyzeComplexity returns, from the cache or not, was
\* computed for the text (and target language) of the call, also when two
\* sentences of different text carry the same sentence id.
C26_CachedByContent ==
    acPc = "returned" =>
        /\ acResult.method = acCall.method
        /\ acResult.text = acCall.text
        /\ acResult.language = acCall.language

\* ------------------------------------------------------------------------
\* Request wrappers: properties
\* ------------------------------------------------------------------------
MrDone == mrPc \in {"returned", "threw"}

\* C7: one invocation sends at most 3 requests whatever the responses are; every
\* request that ended, with a 429 as with any other outcome, used one attempt of
\* the single budget; and the first response that is not a 429 ends the call (the
\* frontend wrapper returns that very response).
C7_AttemptBudget ==
    /\ mrFetches <= maxRetries
    /\ mrFetches = Len(mrLog) + (IF mrPc = "fetching" THEN 1 ELSE 0)
    /\ mrPc \in {"fetching", "backoff"} => attempt = mrFetches
    /\ \A k \in 1..Len(mrLog) :
        (mrLog[k] \in Responses \ {"429"}) =>
            /\ k = Len(mrLog)
            /\ MrDone
            /\ mrWhich = "frontend" =>
                    (mrPc = "returned" /\ mrResult.kind = "response"
                                      /\ mrResult.value = mrLog[k])

\* C7 witness: the frontend wrapper received a 429, then a failure, and returned
\* the response of its third request.
C7_Witness ==
    /\ mrWhich = "frontend"
    /\ mrPc = "returned"
    /\ Len(mrLog) = 3
    /\ mrLog[1] = "429"
    /\ mrLog[2] \in Rejections
    /\ mrLog[3] = "500"

\* C8: when all 3 attempts ended in a 429 or a failure, the call throws and the
\* error it throws is that of the last attempt; it never completes normally.
C8_ExhaustionRaises ==
    (/\ mrWhich = "frontend"
     /\ MrDone
     /\ Len(mrLog) = maxRetries
     /\ \A k \in 1..Len(mrLog) : mrLog[k] \in Rejections \cup {"429"})
    => (/\ mrPc = "threw"
        /\ mrResult.kind = "error"
        /\ mrResult.value = mrLog[Len(mrLog)])

\* ------------------------------------------------------------------------
\* YouTubeService: properties
\* ------------------------------------------------------------------------
\* The single source of getVideoDetails failed: no key, or its request failed.
VideoFailed == ~apiKey \/ answers[1] # "ok"

\* The extraction failed: the tool, the search for its file, or the parse.
CaptionFailed ==
    /\ Len(ecLog) > 0
    /\ ecLog[Len(ecLog)] \in {"error", "timeout", "nofile", "parsefailed"}

NonEmptyTitle(r) == \E n \in 1..Len(r.title) : r.title[n] # ""

=============================================================================
